---------------------------- MODULE Spec2Model ----------------------------
(***************************************************************************)
(* storyboard_gen: the file-batching and structured-output-recovery logic  *)
(* of prompts2tables.py, script2shots.py, shots2prompts_MJ.py and          *)
(* tables_consolidate.py.                                                  *)
(*                                                                         *)
(* Text is modelled character by character: a Python str is a sequence of  *)
(* one-character strings.  "SUP2" stands for the single character U+00B2   *)
(* (superscript two), which str.isdigit() accepts and the regex \d and     *)
(* int() do not.                                                           *)
(***************************************************************************)
EXTENDS Integers, Sequences, FiniteSets, TLC

VARIABLES
    pc,                     \* position of the running operation
    nameA, nameB,           \* two file names handed to natural_sort_key
    cmp,                    \* outcome of comparing their keys
    table_lines,            \* the lines the response text is made of
    markdown_table,         \* text handed to parse_markdown_table_to_csv
    returned,               \* what parse_markdown_table_to_csv returned
    io_outcome,             \* the I/O outcome the last write met
    mode,                   \* which process_* function the run executes
    file_paths,             \* the candidate list, in discovery order
    characters_file,        \* the text of the characters file
    sorted_files,           \* the list the loop iterates over
    idx,                    \* loop position (0-based index into sorted_files)
    pair_num,               \* pair counter of process_prompt_files_in_pairs
    calls,                  \* the external generate_content calls made so far
    outputs,                \* files of the output directory: path -> content
    successful_conversions, \* success counter of the text pipelines
    attempted,              \* batches the loop has reached, in order
    warnings,               \* files a warning or error was logged for
    directory,              \* the input directory of the consolidator and its entries
    csv_files,              \* the *.csv files of the directory, as listed and sorted
    file_index,             \* position of the loop over csv_files (0-based)
    columns,                \* the columns detected from the first file read
    dataframes,             \* the data frames read so far
    skipped,                \* the files whose processing raised
    result,                 \* how consolidate_csv_files ended
    run,                    \* which run of the consolidator over the directory this is
    first_table,            \* the consolidated file an earlier run left in the directory
    program,                \* the command-line entry point that runs
    inputs,                 \* the answers of get_user_inputs
    found_files,            \* the number of input files main found
    process_choice,         \* the answer to the mode or combine question
    api_key,                \* the API key main has
    exit_status,            \* the status the process exited with
    exit_cause              \* why the process exited

keyVars == <<nameA, nameB, cmp>>
extractVars == <<table_lines, markdown_table, returned, io_outcome>>
runVars == <<mode, file_paths, characters_file, sorted_files, idx, pair_num, calls,
             successful_conversions, attempted, warnings>>
consVars == <<directory, csv_files, file_index, columns, dataframes, skipped, result,
              run, first_table>>
cliVars == <<program, inputs, found_files, process_choice, api_key, exit_status,
             exit_cause>>
vars == <<pc, nameA, nameB, cmp, table_lines, markdown_table, returned,
          io_outcome, mode, file_paths, characters_file,
          sorted_files, idx, pair_num, calls, outputs,
          successful_conversions, attempted, warnings,
          directory, csv_files, file_index, columns, dataframes, skipped, result,
          run, first_table,
          program, inputs, found_files, process_choice, api_key, exit_status,
          exit_cause>>

---------------------------------------------------------------------------
(* Bounds *)

MaxNameLen == 2
MaxRows == 3
MaxFiles == 3

---------------------------------------------------------------------------
(* Characters and Python str operations *)

\* The characters of the model in ascending code point order.
Alphabet ==
    <<"\n", " ", "(", ")", "-", ".", "0", "1", "2", "3", "4", "5", "6", "7",
      "8", "9", ":", "=", "A", "B", "C", "D", "E", "F", "G", "H", "I", "J",
      "K", "L", "M", "N", "O", "P", "Q", "R", "S", "T", "U", "V", "W", "X",
      "Y", "Z", "_", "a", "b", "c", "d", "e", "f", "g", "h", "i", "j", "k",
      "l", "m", "n", "o", "p", "q", "r", "s", "t", "u", "v", "w", "x", "y",
      "z", "|", "SUP2">>

Chars == {Alphabet[i] : i \in 1..Len(Alphabet)}

\* ord(c), up to an order-preserving renumbering.
Ord(c) == CHOOSE i \in 1..Len(Alphabet) : Alphabet[i] = c

\* The characters the regex class \d matches.
IsDecimal(c) == c \in {"0", "1", "2", "3", "4", "5", "6", "7", "8", "9"}

\* The characters str.isdigit() accepts.
IsDigitChar(c) == IsDecimal(c) \/ c = "SUP2"

IsSpace(c) == c \in {" ", "\n"}

UpperCase ==
    <<"A", "B", "C", "D", "E", "F", "G", "H", "I", "J", "K", "L", "M", "N",
      "O", "P", "Q", "R", "S", "T", "U", "V", "W", "X", "Y", "Z">>

LowerCase ==
    <<"a", "b", "c", "d", "e", "f", "g", "h", "i", "j", "k", "l", "m", "n",
      "o", "p", "q", "r", "s", "t", "u", "v", "w", "x", "y", "z">>

\* str.lower() on one character.
LowerChar(c) ==
    IF \E i \in 1..26 : UpperCase[i] = c
    THEN LowerCase[CHOOSE i \in 1..26 : UpperCase[i] = c]
    ELSE c

Lower(s) == [i \in 1..Len(s) |-> LowerChar(s[i])]

\* s < t for Python str: lexicographic by code point.
RECURSIVE StrLess(_, _)
StrLess(s, t) ==
    IF t = <<>> THEN FALSE
    ELSE IF s = <<>> THEN TRUE
    ELSE IF s[1] # t[1] THEN Ord(s[1]) < Ord(t[1])
    ELSE StrLess(Tail(s), Tail(t))

\* s.startswith(p)
StartsWith(s, p) == Len(s) >= Len(p) /\ SubSeq(s, 1, Len(p)) = p

\* p in s
Contains(s, p) ==
    \E i \in 1..(Len(s) - Len(p) + 1) : SubSeq(s, i, i + Len(p) - 1) = p

\* The first index >= i of s holding a character that is (want) or is not
\* (~want) white space, scanning forward (step 1) or backward (step -1);
\* 0 when there is none.
RECURSIVE ScanSpace(_, _, _, _)
ScanSpace(s, i, step, want) ==
    IF i < 1 \/ i > Len(s) THEN 0
    ELSE IF IsSpace(s[i]) = want THEN i
    ELSE ScanSpace(s, i + step, step, want)

\* s.strip()
Strip(s) ==
    LET first == ScanSpace(s, 1, 1, FALSE)
    IN IF first = 0 THEN <<>>
       ELSE SubSeq(s, first, ScanSpace(s, Len(s), -1, FALSE))

\* s.find(c, i) for a character c, 1-based, 0 when absent.
RECURSIVE Find(_, _, _)
Find(s, c, i) ==
    IF i > Len(s) THEN 0
    ELSE IF s[i] = c THEN i
    ELSE Find(s, c, i + 1)

\* s.split(sep) for a one-character separator.
RECURSIVE Split(_, _)
Split(s, sep) ==
    LET i == Find(s, sep, 1)
    IN IF i = 0 THEN <<s>>
       ELSE <<SubSeq(s, 1, i - 1)>> \o Split(SubSeq(s, i + 1, Len(s)), sep)

\* sep.join(parts) for a separator string.
RECURSIVE Join(_, _)
Join(parts, sep) ==
    IF parts = <<>> THEN <<>>
    ELSE IF Len(parts) = 1 THEN parts[1]
    ELSE parts[1] \o sep \o Join(Tail(parts), sep)

---------------------------------------------------------------------------
(* natural_sort_key *)

\* int(substring): the value of a string of decimal digits.
RECURSIVE IntOf(_)
IntOf(s) ==
    IF s = <<>> THEN 0
    ELSE IntOf(SubSeq(s, 1, Len(s) - 1)) * 10 + (Ord(s[Len(s)]) - Ord("0"))

\* re.split(r'(\d+)', text): the pieces between the digit runs and the runs.
RECURSIVE ReSplitDigits(_)
ReSplitDigits(s) ==
    LET digits == {i \in 1..Len(s) : IsDecimal(s[i])}
    IN IF digits = {} THEN <<s>>
       ELSE LET first == CHOOSE i \in digits : \A j \in digits : i <= j
                ends == {i \in first..Len(s) :
                            /\ \A j \in first..i : IsDecimal(s[j])
                            /\ (i = Len(s) \/ ~IsDecimal(s[i + 1]))}
                last == CHOOSE i \in ends : TRUE
            IN <<SubSeq(s, 1, first - 1), SubSeq(s, first, last)>>
                   \o ReSplitDigits(SubSeq(s, last + 1, Len(s)))

\* A mutant of convert: digit runs stay text.
convertText(substring) == [kind |-> "str", val |-> Lower(substring)]

\* convert(substring) of natural_sort_key.
convert(substring) ==
    IF substring # <<>> /\ \A i \in 1..Len(substring) : IsDigitChar(substring[i])
    THEN IF \A i \in 1..Len(substring) : IsDecimal(substring[i])
         THEN [kind |-> "int", val |-> IntOf(substring)]
         ELSE [kind |-> "ValueError", val |-> substring]
    ELSE [kind |-> "str", val |-> Lower(substring)]

\* natural_sort_key(text): the list of converted parts, or the exception.
natural_sort_key(text) ==
    LET parts == ReSplitDigits(text)
        key == [i \in 1..Len(parts) |-> convert(parts[i])]
    IN IF \E i \in 1..Len(key) : key[i].kind = "ValueError"
       THEN [raised |-> "ValueError", key |-> <<>>]
       ELSE [raised |-> "no", key |-> key]

\* k1 < k2 for two Python lists: "lt", "ge", or "TypeError" when the first
\* differing elements are an int and a str.
RECURSIVE ListLess(_, _)
ListLess(k1, k2) ==
    IF k2 = <<>> THEN "ge"
    ELSE IF k1 = <<>> THEN "lt"
    ELSE IF k1[1].kind # k2[1].kind THEN "TypeError"
    ELSE IF k1[1].val = k2[1].val THEN ListLess(Tail(k1), Tail(k2))
    ELSE IF k1[1].kind = "int"
         THEN (IF k1[1].val < k2[1].val THEN "lt" ELSE "ge")
         ELSE (IF StrLess(k1[1].val, k2[1].val) THEN "lt" ELSE "ge")

\* The outcome of natural_sort_key(a) < natural_sort_key(b).
KeyLess(a, b) ==
    LET ka == natural_sort_key(a)
        kb == natural_sort_key(b)
    IN IF ka.raised # "no" \/ kb.raised # "no" THEN "ValueError"
       ELSE ListLess(ka.key, kb.key)

---------------------------------------------------------------------------
(* parse_markdown_table_to_csv *)

S_Scene == <<"S", "c", "e", "n", "e">>
S_scene == <<"s", "c", "e", "n", "e">>
S_sep == <<"|", "-", "-", "-">>

\* The index of the first line holding '|' and 'Scene' or 'scene'; 0 stands
\* for table_start == -1.
table_start(lines) ==
    LET hits == {i \in 1..Len(lines) :
                    /\ Find(lines[i], "|", 1) # 0
                    /\ (Contains(lines[i], S_Scene) \/ Contains(lines[i], S_scene))}
    IN IF hits = {} THEN 0 ELSE CHOOSE i \in hits : \A j \in hits : i <= j

\* The condition under which a line is split into cells.
is_row_line(line) == Find(line, "|", 1) # 0 /\ ~StartsWith(line, S_sep)

\* The cells of a line: split on '|', each cell stripped, one empty cell
\* removed from the front and one from the back.
row_cells(line) ==
    LET parts == Split(line, "|")
        cells == [i \in 1..Len(parts) |-> Strip(parts[i])]
        c1 == IF cells # <<>> /\ cells[1] = <<>> THEN Tail(cells) ELSE cells
    IN IF c1 # <<>> /\ c1[Len(c1)] = <<>> THEN SubSeq(c1, 1, Len(c1) - 1) ELSE c1

\* A mutant of keep_row: rows with extra cells pass the filter.
keep_row_at_least(cells) == Len(cells) >= 3

\* The arity filter: only rows with 3 columns are added.
keep_row(cells) == Len(cells) = 3

\* table_rows: the cells of every kept row from line `start` on, in order.
RECURSIVE table_rows_from(_, _)
table_rows_from(lines, start) ==
    IF start > Len(lines) THEN <<>>
    ELSE LET line == Strip(lines[start])
             rest == table_rows_from(lines, start + 1)
         IN IF is_row_line(line) /\ keep_row(row_cells(line))
            THEN <<row_cells(line)>> \o rest
            ELSE rest

\* A mutant of data_rows_of: the header row is kept as data.
data_rows_keep_header(table_rows) == table_rows

\* data_rows: the header row (first row) is skipped.
data_rows_of(table_rows) == IF Len(table_rows) > 1 THEN Tail(table_rows) ELSE <<>>

\* The record writer.writerow writes for a row (rows shorter than 3 are not
\* written).
csv_records(data_rows) ==
    LET RECURSIVE recs(_)
        recs(rows) ==
            IF rows = <<>> THEN <<>>
            ELSE IF Len(rows[1]) >= 3
                 THEN <<[scene |-> rows[1][1], shot |-> rows[1][2], prompt |-> rows[1][3]]>>
                          \o recs(Tail(rows))
                 ELSE recs(Tail(rows))
    IN recs(data_rows)

\* The file system outcomes of writing n records to output_path: everything
\* is written, open() raises, or an exception is raised after the file was
\* truncated and a prefix written (nothing, or the header and k < n records).
IoOutcomes(n) ==
    {[kind |-> "ok", rows |-> n], [kind |-> "open_fails", rows |-> 0],
     [kind |-> "write_fails", rows |-> -1]}
        \cup {[kind |-> "write_fails", rows |-> k] : k \in 0..(n - 1)}

CsvFile(records, k) ==
    [kind |-> "csv",
     header |-> IF k >= 0 THEN <<"scene", "shot", "prompt">> ELSE <<>>,
     rows |-> IF k >= 0 THEN SubSeq(records, 1, k) ELSE <<>>]

\* fs with the file at path replaced by content.
WriteFile(fs, path, content) ==
    [q \in (DOMAIN fs) \cup {path} |-> IF q = path THEN content ELSE fs[q]]

\* Lines 158-198 of parse_markdown_table_to_csv: the step at which the
\* function stops before writing ("no_table", "no_rows", "no_data") or
\* "write", and the records it goes on to write.
parse_rows(md) ==
    LET lines == Split(Strip(md), "\n")
        start == table_start(lines)
        table_rows == table_rows_from(lines, start)
        data_rows == data_rows_of(table_rows)
    IN IF start = 0 THEN [step |-> "no_table", records |-> <<>>]
       ELSE IF table_rows = <<>> THEN [step |-> "no_rows", records |-> <<>>]
       ELSE IF data_rows = <<>> THEN [step |-> "no_data", records |-> <<>>]
       ELSE [step |-> "write", records |-> csv_records(data_rows)]

\* A mutant of write_csv: the file is opened for writing before the rows
\* are looked at.
write_csv_opens_first(parsed, output_path, fs, io) ==
    IF io.kind = "open_fails" THEN [returned |-> FALSE, fs |-> fs]
    ELSE IF parsed.step # "write"
         THEN [returned |-> FALSE, fs |-> WriteFile(fs, output_path, CsvFile(<<>>, -1))]
    ELSE IF io.kind = "write_fails"
         THEN [returned |-> FALSE,
               fs |-> WriteFile(fs, output_path, CsvFile(parsed.records, io.rows))]
    ELSE [returned |-> TRUE,
          fs |-> WriteFile(fs, output_path,
                           CsvFile(parsed.records, Len(parsed.records)))]

\* Lines 200-223 of parse_markdown_table_to_csv: the value returned and the
\* file system left, for the parsed rows and the I/O outcome io.
write_csv(parsed, output_path, fs, io) ==
    IF parsed.step # "write" THEN [returned |-> FALSE, fs |-> fs]
    ELSE IF io.kind = "open_fails" THEN [returned |-> FALSE, fs |-> fs]
    ELSE IF io.kind = "write_fails"
         THEN [returned |-> FALSE,
               fs |-> WriteFile(fs, output_path, CsvFile(parsed.records, io.rows))]
    ELSE [returned |-> TRUE,
          fs |-> WriteFile(fs, output_path,
                           CsvFile(parsed.records, Len(parsed.records)))]

\* parse_markdown_table_to_csv(markdown_table, output_path), md the text, on
\* the file system fs with I/O outcome io.
parse_markdown_table_to_csv(md, output_path, fs, io) ==
    write_csv(parse_rows(md), output_path, fs, io)

---------------------------------------------------------------------------
(* Response lines used as concrete inputs *)

HDR == <<"|", " ", "S", "c", "e", "n", "e", " ", "|", " ", "S", "h", "o", "t", " ", "|", " ", "P", "r", "o", "m", "p", "t", " ", "|">>
HDR_LOWER == <<"|", "s", "c", "e", "n", "e", "|", "s", "h", "o", "t", "|", "p", "r", "o", "m", "p", "t", "|">>
HDR_UPPER == <<"|", " ", "S", "C", "E", "N", "E", " ", "|", " ", "S", "H", "O", "T", " ", "|", " ", "P", "R", "O", "M", "P", "T", " ", "|">>
SEP == <<"|", "-", "-", "-", "|", "-", "-", "-", "|", "-", "-", "-", "|">>
SEP_SPACED == <<"|", " ", "-", "-", "-", " ", "|", " ", "-", "-", "-", " ", "|", " ", "-", "-", "-", " ", "|">>
ROW_1A == <<"|", " ", "1", " ", "|", " ", "1", "A", " ", "|", " ", "p", " ", "|">>
ROW_1B == <<"|", " ", "1", " ", "|", " ", "1", "B", " ", "|", " ", "q", " ", "|">>
ROW_2CELLS == <<"|", " ", "2", " ", "|", " ", "2", "A", " ", "|">>
ROW_4CELLS == <<"|", " ", "2", " ", "|", " ", "2", "B", " ", "|", " ", "p", " ", "|", " ", "q", " ", "|">>
PRE_PIPE == <<"a", " ", "|", " ", "b">>
HDR_4CELLS == <<"|", " ", "S", "c", "e", "n", "e", " ", "|", " ", "S", "h", "o", "t", " ", "|", " ", "P", "r", "o", "m", "p", "t", " ", "|", " ", "N", "o", "t", "e", "s", " ", "|">>
ROW_DASH == <<"|", "-", "-", "-", "|", " ", "2", "C", " ", "|", " ", "r", " ", "|">>

PreambleLines == {"PRE_PIPE"}
HeaderLines == {"HDR", "HDR_LOWER", "HDR_UPPER", "HDR_4CELLS"}
SeparatorLines == {"SEP", "SEP_SPACED"}
RowLines == {"ROW_1A", "ROW_1B", "ROW_2CELLS", "ROW_4CELLS", "ROW_DASH", "HDR_AGAIN"}

\* The text of a line of the catalogue.
LineText(id) ==
    CASE id = "HDR" -> HDR
      [] id = "HDR_AGAIN" -> HDR
      [] id = "HDR_LOWER" -> HDR_LOWER
      [] id = "HDR_UPPER" -> HDR_UPPER
      [] id = "SEP" -> SEP
      [] id = "SEP_SPACED" -> SEP_SPACED
      [] id = "ROW_1A" -> ROW_1A
      [] id = "ROW_1B" -> ROW_1B
      [] id = "ROW_2CELLS" -> ROW_2CELLS
      [] id = "ROW_4CELLS" -> ROW_4CELLS
      [] id = "PRE_PIPE" -> PRE_PIPE
      [] id = "HDR_4CELLS" -> HDR_4CELLS
      [] id = "ROW_DASH" -> ROW_DASH

\* The cells each line of the catalogue is written with (its text between
\* the delimiters, without the surrounding blanks).
LineCells(id) ==
    CASE id \in {"HDR", "HDR_AGAIN"} -> <<S_Scene, <<"S", "h", "o", "t">>, <<"P", "r", "o", "m", "p", "t">>>>
      [] id = "HDR_LOWER" -> <<S_scene, <<"s", "h", "o", "t">>, <<"p", "r", "o", "m", "p", "t">>>>
      [] id = "HDR_UPPER" -> <<<<"S", "C", "E", "N", "E">>, <<"S", "H", "O", "T">>, <<"P", "R", "O", "M", "P", "T">>>>
      [] id \in {"SEP", "SEP_SPACED"} -> <<<<"-", "-", "-">>, <<"-", "-", "-">>, <<"-", "-", "-">>>>
      [] id = "ROW_1A" -> <<<<"1">>, <<"1", "A">>, <<"p">>>>
      [] id = "ROW_1B" -> <<<<"1">>, <<"1", "B">>, <<"q">>>>
      [] id = "ROW_2CELLS" -> <<<<"2">>, <<"2", "A">>>>
      [] id = "ROW_4CELLS" -> <<<<"2">>, <<"2", "B">>, <<"p">>, <<"q">>>>
      [] id = "PRE_PIPE" -> <<<<"a">>, <<"b">>>>
      [] id = "HDR_4CELLS" -> <<S_Scene, <<"S", "h", "o", "t">>, <<"P", "r", "o", "m", "p", "t">>,
                              <<"N", "o", "t", "e", "s">>>>
      [] id = "ROW_DASH" -> <<<<"-", "-", "-">>, <<"2", "C">>, <<"r">>>>

\* The record a 3-cell line stands for.
RecordOf(cells) == [scene |-> cells[1], shot |-> cells[2], prompt |-> cells[3]]

\* The response text made of the given lines.
TextOf(ids) == Join([i \in 1..Len(ids) |-> LineText(ids[i])], <<"\n">>)

---------------------------------------------------------------------------
(* File names used as concrete inputs *)

N_a_2 == <<"a", "_", "2">>
N_a_10 == <<"a", "_", "1", "0">>
N_a02 == <<"a", "0", "2">>
N_a2 == <<"a", "2">>
N_sup2 == <<"SUP2">>
N_1sup2 == <<"1", "SUP2", "2">>
N_chunk_1_stem == <<"c", "h", "u", "n", "k", "_", "1">>
S_csv == <<"_", "p", "r", "o", "m", "p", "t", "s", "_", "t", "a", "b", "l", "e", ".", "c", "s", "v">>
N_chunk_1 == <<"c", "h", "u", "n", "k", "_", "1", ".", "t", "x", "t">>
N_chunk_2 == <<"c", "h", "u", "n", "k", "_", "2", ".", "t", "x", "t">>
N_chunk_10 == <<"c", "h", "u", "n", "k", "_", "1", "0", ".", "t", "x", "t">>

---------------------------------------------------------------------------
(* Files: pathlib.Path operations on the candidates *)

N_chunk_3 == <<"c", "h", "u", "n", "k", "_", "3", ".", "t", "x", "t">>
N_chunk_4 == <<"c", "h", "u", "n", "k", "_", "4", ".", "t", "x", "t">>
N_chunk_5 == <<"c", "h", "u", "n", "k", "_", "5", ".", "t", "x", "t">>
N_chunk_6 == <<"c", "h", "u", "n", "k", "_", "6", ".", "t", "x", "t">>
N_chunk_7 == <<"c", "h", "u", "n", "k", "_", "7", ".", "t", "x", "t">>
N_notes_md == <<"n", "o", "t", "e", "s", ".", "m", "d">>
S_txt == <<".", "t", "x", "t">>
S_rtf == <<".", "r", "t", "f">>

\* The candidate files: five readable .txt files of one directory, a file of
\* the same name in a sub-directory, two files holding white space only, a
\* file that is gone when it is processed, and a file with another extension.
FileIds == {"c1", "c2", "c3", "c4", "c10", "sub_c1", "blank", "blank2", "gone", "md"}

\* Path.name
FileName(f) ==
    CASE f \in {"c1", "sub_c1"} -> N_chunk_1
      [] f = "c2" -> N_chunk_2
      [] f = "c3" -> N_chunk_3
      [] f = "c4" -> N_chunk_4
      [] f = "c10" -> N_chunk_10
      [] f = "blank" -> N_chunk_5
      [] f = "blank2" -> N_chunk_7
      [] f = "gone" -> N_chunk_6
      [] f = "md" -> N_notes_md

\* Path.exists() when the file is processed.
FileExists(f) == f # "gone"

\* The raw text open(...).read() gives.
FileText(f) ==
    CASE f = "c1" -> <<"x">>
      [] f = "c2" -> <<"y", "\n">>
      [] f = "c3" -> <<"z">>
      [] f = "c4" -> <<"w">>
      [] f = "c10" -> <<"v">>
      [] f = "sub_c1" -> <<"u">>
      [] f = "blank" -> <<" ", "\n">>
      [] f = "blank2" -> <<"\n">>
      [] f = "gone" -> <<>>
      [] f = "md" -> <<"m">>

\* name.rfind('.'), 1-based, 0 when absent.
RECURSIVE RFind(_, _, _)
RFind(s, c, i) ==
    IF i < 1 THEN 0
    ELSE IF s[i] = c THEN i
    ELSE RFind(s, c, i - 1)

\* Path.suffix
suffix(name) ==
    LET i == RFind(name, ".", Len(name))
    IN IF 1 < i /\ i < Len(name) THEN SubSeq(name, i, Len(name)) ELSE <<>>

\* Path.stem
stem(name) ==
    LET i == RFind(name, ".", Len(name))
    IN IF 1 < i /\ i < Len(name) THEN SubSeq(name, 1, i - 1) ELSE name

\* f.exists() and f.suffix.lower() == '.txt'
is_valid_txt(f) == FileExists(f) /\ Lower(suffix(FileName(f))) = S_txt

\* A mutant of sort_less: names compared as plain strings.
sort_less_plain(a, b) == StrLess(FileName(a), FileName(b))

\* The comparison sorted(..., key=lambda x: natural_sort_key(x.name)) uses.
sort_less(a, b) == KeyLess(FileName(a), FileName(b)) = "lt"

\* f put into a sorted list behind every element that is not greater.
RECURSIVE InsertSorted(_, _)
InsertSorted(sorted, f) ==
    IF sorted = <<>> THEN <<f>>
    ELSE IF sort_less(f, sorted[1]) THEN <<f>> \o sorted
    ELSE <<sorted[1]>> \o InsertSorted(Tail(sorted), f)

\* sorted(paths, key=lambda x: natural_sort_key(x.name)): a stable sort.
RECURSIVE sorted_by_name(_)
sorted_by_name(paths) ==
    IF paths = <<>> THEN <<>>
    ELSE InsertSorted(sorted_by_name(SubSeq(paths, 1, Len(paths) - 1)),
                      paths[Len(paths)])

---------------------------------------------------------------------------
(* prompts2tables.py: reading, concatenating, the external call *)

S_file_open == <<"=", "=", "=", " ", "F", "I", "L", "E", ":", " ">>
S_file_close == <<" ", "=", "=", "=">>
S_Error == <<"E", "r", "r", "o", "r">>
S_prompts_table_csv == <<"p", "r", "o", "m", "p", "t", "s", "_", "t", "a", "b", "l", "e", ".", "c", "s", "v">>
ERR_PARSE_EMPTY == <<"E", "r", "r", "o", "r", ":", " ", "C", "o", "u", "l", "d", " ", "n", "o", "t", " ", "p", "a", "r", "s", "e", " ", "p", "r", "o", "m", "p", "t", "s", ".", " ", "T", "h", "e", " ", "r", "e", "s", "p", "o", "n", "s", "e", " ", "w", "a", "s", " ", "e", "m", "p", "t", "y", " ", "o", "r", " ", "b", "l", "o", "c", "k", "e", "d", ".">>
ERR_PARSE_EXC == <<"E", "r", "r", "o", "r", " ", "p", "a", "r", "s", "i", "n", "g", " ", "p", "r", "o", "m", "p", "t", "s", " ", "w", "i", "t", "h", " ", "G", "e", "m", "i", "n", "i", ":", " ">>

\* read_prompt_file(file_path)
read_prompt_file(f) == IF FileExists(f) THEN Strip(FileText(f)) ELSE <<>>

\* A mutant of concatenated_files: one empty file empties the payload.
concatenated_files_all_or_none(sorted) ==
    IF \E k \in DOMAIN sorted : read_prompt_file(sorted[k]) = <<>> THEN <<>> ELSE sorted

\* The files of paths whose marker and content concatenate_prompt_files
\* appends, in the order it appends them.
RECURSIVE concatenated_files(_)
concatenated_files(sorted) ==
    IF sorted = <<>> THEN <<>>
    ELSE IF ~FileExists(sorted[1]) THEN concatenated_files(Tail(sorted))
    ELSE IF Lower(suffix(FileName(sorted[1]))) # S_txt THEN concatenated_files(Tail(sorted))
    ELSE IF read_prompt_file(sorted[1]) = <<>> THEN concatenated_files(Tail(sorted))
    ELSE <<sorted[1]>> \o concatenated_files(Tail(sorted))

\* The warnings concatenate_prompt_files logs for the files of its sorted
\* list: a file that is not found, is no .txt file, or has no content.
RECURSIVE concatenate_warnings(_)
concatenate_warnings(sorted) ==
    IF sorted = <<>> THEN <<>>
    ELSE (IF ~FileExists(sorted[1]) THEN <<<<"not_found", sorted[1]>>>>
          ELSE IF Lower(suffix(FileName(sorted[1]))) # S_txt THEN <<<<"non_txt", sorted[1]>>>>
          ELSE IF read_prompt_file(sorted[1]) = <<>> THEN <<<<"no_content_read", sorted[1]>>>>
          ELSE <<>>)
         \o concatenate_warnings(Tail(sorted))

\* A mutant of combined_content_of: no blank entry after the content.
RECURSIVE combined_content_no_blank(_)
combined_content_no_blank(files) ==
    IF files = <<>> THEN <<>>
    ELSE <<S_file_open \o FileName(files[1]) \o S_file_close,
           read_prompt_file(files[1])>> \o combined_content_no_blank(Tail(files))

\* combined_content of concatenate_prompt_files: three entries per file.
RECURSIVE combined_content_of(_)
combined_content_of(files) ==
    IF files = <<>> THEN <<>>
    ELSE <<S_file_open \o FileName(files[1]) \o S_file_close,
           read_prompt_file(files[1]), <<>>>> \o combined_content_of(Tail(files))

\* concatenate_prompt_files(prompt_file_paths)
concatenate_prompt_files(paths) ==
    IF paths = <<>> THEN <<>>
    ELSE Join(combined_content_of(concatenated_files(sorted_by_name(paths))), <<"\n">>)

\* What generate_content does: it returns text, returns nothing, or raises.
ApiText(t) == [kind |-> "text", text |-> t]
ApiEmpty == [kind |-> "empty", text |-> <<>>]
ApiRaise == [kind |-> "raise", text |-> <<"t", "i", "m", "e", "o", "u", "t">>]

\* parse_prompts(client, combined_content): the text returned for what the
\* API did.
parse_prompts(api) ==
    CASE api.kind = "text" -> api.text
      [] api.kind = "empty" -> ERR_PARSE_EMPTY
      [] api.kind = "raise" -> ERR_PARSE_EXC \o api.text

\* A mutant of is_failed_output: the error prefix is not looked at.
is_failed_output_empty_only(structured_output) == structured_output = <<>>

\* not structured_output or structured_output.startswith("Error")
is_failed_output(structured_output) ==
    structured_output = <<>> \/ StartsWith(structured_output, S_Error)

\* A mutant of advance: the loop ends at the first failed batch.
advance_stop(i, step, failed) == IF failed THEN i + step + MaxFiles + 5 ELSE i + step

\* A mutant of advance: a failed batch is tried again.
advance_retry(i, step, failed) == IF failed THEN i ELSE i + step

\* The loop variable after an iteration: `continue` after a failure and the
\* end of the loop body both go on with the next element.
advance(i, step, failed) == i + step

\* Responses of the external call used as inputs of the tabular pipeline.
R_TABLE == TextOf(<<"HDR", "SEP", "ROW_1A">>)
R_ERR_TABLE == <<"E", "r", "r", "o", "r", ":", " ", "b", "l", "o", "c", "k", "e", "d", "\n">> \o R_TABLE
R_NO_TABLE == <<"S", "o", "r", "r", "y">>

TableApiResults ==
    {ApiText(R_TABLE), ApiText(R_ERR_TABLE), ApiText(R_NO_TABLE), ApiEmpty, ApiRaise}

NoFiles == <<>>

NoIo == [kind |-> "none", rows |-> 0]

BoolStr(b) == IF b THEN "True" ELSE "False"

---------------------------------------------------------------------------
(* script2shots.py and shots2prompts_MJ.py: reading, the external call,    *)
(* saving                                                                  *)

S_SCRIPT == <<"S", "C", "R", "I", "P", "T", ":", " ">>
S_SHOT_LIST == <<"S", "H", "O", "T", " ", "L", "I", "S", "T", ":", " ">>
S_CHARACTERS == <<"C", "H", "A", "R", "A", "C", "T", "E", "R", " ", "D", "E", "S", "C", "R", "I", "P", "T", "I", "O", "N", "S", ":", "\n">>
S_Combined == <<" ", "(", "C", "o", "m", "b", "i", "n", "e", "d", ")">>
S_shot_list_txt == <<"_", "s", "h", "o", "t", "_", "l", "i", "s", "t", ".", "t", "x", "t">>
S_combined_shot_list_txt == <<"_", "c", "o", "m", "b", "i", "n", "e", "d", "_", "s", "h", "o", "t", "_", "l", "i", "s", "t", ".", "t", "x", "t">>
S_image_prompts_txt == <<"_", "i", "m", "a", "g", "e", "_", "p", "r", "o", "m", "p", "t", "s", ".", "t", "x", "t">>
S_combined_image_prompts_txt == <<"_", "c", "o", "m", "b", "i", "n", "e", "d", "_", "i", "m", "a", "g", "e", "_", "p", "r", "o", "m", "p", "t", "s", ".", "t", "x", "t">>
ERR_SHOT_EMPTY == <<"E", "r", "r", "o", "r", ":", " ", "C", "o", "u", "l", "d", " ", "n", "o", "t", " ", "g", "e", "n", "e", "r", "a", "t", "e", " ", "s", "h", "o", "t", " ", "l", "i", "s", "t", " ", "f", "o", "r", " ">>
ERR_IMG_EMPTY == <<"E", "r", "r", "o", "r", ":", " ", "C", "o", "u", "l", "d", " ", "n", "o", "t", " ", "g", "e", "n", "e", "r", "a", "t", "e", " ", "i", "m", "a", "g", "e", " ", "p", "r", "o", "m", "p", "t", "s", " ", "f", "o", "r", " ">>
ERR_EMPTY_TAIL == <<".", " ", "T", "h", "e", " ", "r", "e", "s", "p", "o", "n", "s", "e", " ", "w", "a", "s", " ", "e", "m", "p", "t", "y", " ", "o", "r", " ", "b", "l", "o", "c", "k", "e", "d", ".">>
ERR_SHOT_EXC == <<"E", "r", "r", "o", "r", " ", "g", "e", "n", "e", "r", "a", "t", "i", "n", "g", " ", "s", "h", "o", "t", " ", "l", "i", "s", "t", " ", "f", "o", "r", " ">>
ERR_IMG_EXC == <<"E", "r", "r", "o", "r", " ", "g", "e", "n", "e", "r", "a", "t", "i", "n", "g", " ", "i", "m", "a", "g", "e", " ", "p", "r", "o", "m", "p", "t", "s", " ", "f", "o", "r", " ">>
R_TEXT == <<"S", "h", "o", "t", " ", "1", "A">>

\* input_path.name, the name given to a combined output.
COMBINED_NAME == <<"e", "p", "1">>

\* read_script_file(file_path); no .rtf file is among the candidates.
read_script_file(f) ==
    IF ~FileExists(f) THEN <<>>
    ELSE IF Lower(suffix(FileName(f))) = S_txt THEN Strip(FileText(f))
    ELSE <<>>

\* read_shot_list_file(file_path)
read_shot_list_file(f) == IF FileExists(f) THEN Strip(FileText(f)) ELSE <<>>

\* The texts of the characters file: none (the file is absent), white space
\* only, or a description.
CharactersTexts == {<<>>, <<"h", "\n">>}

\* read_characters_file() for the text of the characters file
read_characters_file(text) == Strip(text)

\* user_content of generate_shot_list
script_user_content(script_name, script_content) ==
    S_SCRIPT \o script_name \o <<"\n", "\n">> \o script_content

\* user_content of generate_image_prompts
shot_list_user_content(characters_content, shot_list_name, shot_list_content) ==
    IF characters_content # <<>>
    THEN S_CHARACTERS \o characters_content \o <<"\n", "\n">> \o S_SHOT_LIST
             \o shot_list_name \o <<"\n", "\n">> \o shot_list_content
    ELSE S_SHOT_LIST \o shot_list_name \o <<"\n", "\n">> \o shot_list_content

TextApiResults == {ApiText(R_TEXT), ApiEmpty, ApiRaise}

\* generate_shot_list(client, script_content, script_name): the text returned
\* for what the API did.
generate_shot_list(api, script_name) ==
    CASE api.kind = "text" -> api.text
      [] api.kind = "empty" -> ERR_SHOT_EMPTY \o script_name \o ERR_EMPTY_TAIL
      [] api.kind = "raise" -> ERR_SHOT_EXC \o script_name \o <<":", " ">> \o api.text

\* generate_image_prompts(client, shot_list_content, shot_list_name)
generate_image_prompts(api, shot_list_name) ==
    CASE api.kind = "text" -> api.text
      [] api.kind = "empty" -> ERR_IMG_EMPTY \o shot_list_name \o ERR_EMPTY_TAIL
      [] api.kind = "raise" -> ERR_IMG_EXC \o shot_list_name \o <<":", " ">> \o api.text

\* The outcomes of open(output_path, 'w') and file.write: written, open()
\* raises, or an exception after the file was truncated and the first chars
\* characters were written.
SaveOutcomes ==
    {[kind |-> "ok", chars |-> 0], [kind |-> "open_fails", chars |-> 0],
     [kind |-> "write_fails", chars |-> 1]}

TextFile(text) == [kind |-> "text", text |-> text]

\* save_shot_list(shot_list, output_path) on the file system fs
save_shot_list(shot_list, output_path, fs, io) ==
    CASE io.kind = "ok" ->
            [returned |-> TRUE, fs |-> WriteFile(fs, output_path, TextFile(shot_list))]
      [] io.kind = "open_fails" -> [returned |-> FALSE, fs |-> fs]
      [] io.kind = "write_fails" ->
            [returned |-> FALSE,
             fs |-> WriteFile(fs, output_path, TextFile(SubSeq(shot_list, 1, io.chars)))]

\* save_image_prompts(image_prompts, output_path) on the file system fs
save_image_prompts(image_prompts, output_path, fs, io) ==
    CASE io.kind = "ok" ->
            [returned |-> TRUE, fs |-> WriteFile(fs, output_path, TextFile(image_prompts))]
      [] io.kind = "open_fails" -> [returned |-> FALSE, fs |-> fs]
      [] io.kind = "write_fails" ->
            [returned |-> FALSE,
             fs |-> WriteFile(fs, output_path, TextFile(SubSeq(image_prompts, 1, io.chars)))]

\* The non-empty contents of the files, in order (full_script_content).
RECURSIVE full_script_content(_)
full_script_content(paths) ==
    IF paths = <<>> THEN <<>>
    ELSE IF read_script_file(paths[1]) # <<>>
         THEN <<read_script_file(paths[1])>> \o full_script_content(Tail(paths))
         ELSE full_script_content(Tail(paths))

\* The non-empty contents of the files, in order (full_shot_list_content).
RECURSIVE full_shot_list_content(_)
full_shot_list_content(paths) ==
    IF paths = <<>> THEN <<>>
    ELSE IF read_shot_list_file(paths[1]) # <<>>
         THEN <<read_shot_list_file(paths[1])>> \o full_shot_list_content(Tail(paths))
         ELSE full_shot_list_content(Tail(paths))

---------------------------------------------------------------------------
(* Specification of natural_sort_key as a pure function: two names are    *)
(* built character by character (or taken from the concrete pairs) and    *)
(* their keys are compared both ways.                                     *)

BuildChars == {"a", "B", "0", "1", "2"}

ConcretePairs ==
    {<<N_a_2, N_a_10>>, <<N_chunk_2, N_chunk_10>>, <<N_chunk_10, N_chunk_2>>,
     <<N_a02, N_a2>>, <<N_chunk_1, N_chunk_10>>,
     <<N_sup2, N_a_2>>, <<N_a_2, N_1sup2>>}

IdleExtract ==
    /\ table_lines = <<>> /\ markdown_table = <<>> /\ returned = "none"
    /\ io_outcome = NoIo

IdleRun ==
    /\ mode = "none" /\ file_paths = <<>> /\ characters_file = <<>>
    /\ sorted_files = <<>>
    /\ idx = 0 /\ pair_num = 0 /\ calls = <<>>
    /\ successful_conversions = 0 /\ attempted = <<>> /\ warnings = <<>>

IdleKey == nameA = <<>> /\ nameB = <<>> /\ cmp = "none"

NoColumns == [set |-> FALSE, names |-> <<>>]

\* A directory: whether it exists, and its entries in the order the file
\* system lists them.
NoDirectory == [exists |-> FALSE, entries |-> <<>>]

\* No answers: get_user_inputs has not returned.
NoInputs == [is_dir |-> FALSE, path_exists |-> FALSE, verbose |-> FALSE]

IdleCli ==
    /\ program = "none" /\ inputs = NoInputs /\ found_files = 0
    /\ process_choice = "none" /\ api_key = "none"
    /\ exit_status = -1 /\ exit_cause = "none"

\* No consolidated file: no earlier run has written one.
NoTable == [kind |-> "none", header |-> <<>>, rows |-> <<>>]

IdleCons ==
    /\ directory = NoDirectory /\ csv_files = <<>> /\ file_index = 0
    /\ columns = NoColumns /\ dataframes = <<>> /\ skipped = <<>>
    /\ result = "none" /\ run = 0 /\ first_table = NoTable

InitKey ==
    /\ pc = "key_build"
    /\ cmp = "none"
    /\ \/ nameA = <<>> /\ nameB = <<>>
       \/ \E p \in ConcretePairs : nameA = p[1] /\ nameB = p[2]
    /\ IdleExtract /\ IdleRun /\ IdleCons /\ IdleCli /\ outputs = <<>>

AppendA ==
    /\ pc = "key_build" /\ Len(nameA) < MaxNameLen
    /\ \E c \in BuildChars : nameA' = Append(nameA, c)
    /\ UNCHANGED <<cliVars, consVars, pc, nameB, cmp, extractVars, runVars, outputs>>

AppendB ==
    /\ pc = "key_build" /\ Len(nameB) < MaxNameLen
    /\ \E c \in BuildChars : nameB' = Append(nameB, c)
    /\ UNCHANGED <<cliVars, consVars, pc, nameA, cmp, extractVars, runVars, outputs>>

\* sorted() decides the order of two names by key(a) < key(b) and key(b) < key(a).
CompareKeys ==
    /\ pc = "key_build"
    /\ cmp' = [ab |-> KeyLess(nameA, nameB), ba |-> KeyLess(nameB, nameA)]
    /\ pc' = "key_done"
    /\ UNCHANGED <<cliVars, consVars, nameA, nameB, extractVars, runVars, outputs>>

NextKey == AppendA \/ AppendB \/ CompareKeys

SpecKey == InitKey /\ [][NextKey]_vars

---------------------------------------------------------------------------
(* Specification of parse_markdown_table_to_csv as a function of the       *)
(* response text and the file system: a response is put together line by   *)
(* line (an optional preamble, header, separator, then rows) and handed to *)
(* the extractor with each I/O outcome.                                    *)

OUT_PATH == N_chunk_1_stem \o S_csv

\* A file left at the output path by an earlier run.
OldFile == CsvFile(<<[scene |-> <<"0">>, shot |-> <<"0">>, prompt |-> <<"o">>]>>, 1)

InitExtract ==
    /\ pc = "x_pre"
    /\ table_lines = <<>> /\ markdown_table = <<>> /\ returned = "none"
    /\ io_outcome = NoIo
    /\ outputs \in {NoFiles, WriteFile(NoFiles, OUT_PATH, OldFile)}
    /\ IdleKey /\ IdleRun /\ IdleCons /\ IdleCli

AddPreamble ==
    /\ pc = "x_pre"
    /\ \E l \in PreambleLines : table_lines' = Append(table_lines, l)
    /\ pc' = "x_hdr"
    /\ UNCHANGED <<cliVars, consVars, keyVars, markdown_table, returned, io_outcome, runVars, outputs>>

AddHeader ==
    /\ pc \in {"x_pre", "x_hdr"}
    /\ \E l \in HeaderLines : table_lines' = Append(table_lines, l)
    /\ pc' = "x_sep"
    /\ UNCHANGED <<cliVars, consVars, keyVars, markdown_table, returned, io_outcome, runVars, outputs>>

AddSeparator ==
    /\ pc \in {"x_pre", "x_hdr", "x_sep"}
    /\ \E l \in SeparatorLines : table_lines' = Append(table_lines, l)
    /\ pc' = "x_rows"
    /\ UNCHANGED <<cliVars, consVars, keyVars, markdown_table, returned, io_outcome, runVars, outputs>>

\* The number of lines added by AddRow.
RowCount == Cardinality({i \in 1..Len(table_lines) : table_lines[i] \in RowLines})

AddRow ==
    /\ pc \in {"x_pre", "x_hdr", "x_sep", "x_rows"}
    /\ RowCount < MaxRows
    /\ \E l \in RowLines : table_lines' = Append(table_lines, l)
    /\ pc' = "x_rows"
    /\ UNCHANGED <<cliVars, consVars, keyVars, markdown_table, returned, io_outcome, runVars, outputs>>

Extract ==
    /\ pc \in {"x_pre", "x_hdr", "x_sep", "x_rows"}
    /\ \E md \in {TextOf(table_lines)} :
       \E parsed \in {parse_rows(md)} :
       \E io \in IoOutcomes(Len(parsed.records)) :
       \E r \in {write_csv(parsed, OUT_PATH, outputs, io)} :
            /\ markdown_table' = md
            /\ returned' = BoolStr(r.returned)
            /\ io_outcome' = (IF parsed.step = "write" THEN io ELSE NoIo)
            /\ outputs' = r.fs
    /\ pc' = "x_done"
    /\ UNCHANGED <<cliVars, consVars, keyVars, table_lines, runVars>>

NextExtract == AddPreamble \/ AddHeader \/ AddSeparator \/ AddRow \/ Extract

SpecExtract == InitExtract /\ [][NextExtract]_vars

---------------------------------------------------------------------------
(* Specification of the runs: one of the process_* functions is called on  *)
(* a list of candidate files in the order discovery returned them, and     *)
(* goes through its loop one iteration per step; the external call and the *)
(* file system answer with each of their outcomes.                         *)

Modes ==
    {"individually", "pairs", "to_csv", "script_files", "combined_script",
     "shot_list_files", "combined_shot_lists"}

LoopModes == {"individually", "pairs", "script_files", "shot_list_files"}

\* The files candidate lists are drawn from.
GenericFiles == {"c1", "c2", "c10", "sub_c1", "blank", "gone", "md"}

\* The lists of at most MaxFiles different files.
BoundedLists ==
    {l \in UNION {[1..n -> GenericFiles] : n \in 0..MaxFiles} :
        \A i, j \in DOMAIN l : i # j => l[i] # l[j]}

\* Five files, as rglob may return them.
FiveFileLists ==
    {<<"c10", "c3", "c1", "c4", "c2">>, <<"c1", "c2", "c3", "c4", "c10">>}

\* Lists with two files that read as empty.
EmptyFileLists == {<<"blank2", "blank">>, <<"blank2", "c1", "blank">>}

CandidateLists(m) ==
    CASE m = "pairs" -> BoundedLists \cup FiveFileLists \cup EmptyFileLists
      [] m = "to_csv" -> BoundedLists \cup EmptyFileLists
      [] OTHER -> BoundedLists

\* The entry of the call log for a call: the batch it was made for, the
\* payload sent, the text the wrapper returned, whether the output was
\* written ("none": no write was tried) and where.
CallRecord(files, payload, response, written, path) ==
    [batch |-> Len(attempted) + 1, files |-> files, payload |-> payload,
     response |-> response, written |-> written, path |-> path]

Min(a, b) == IF a < b THEN a ELSE b

\* sorted_files[i:i+2], i counted from 0
window(sorted, i) == SubSeq(sorted, i + 1, Min(i + 2, Len(sorted)))

\* The list the loop of the function goes through.
loop_order(m, paths) ==
    IF m \in {"script_files", "shot_list_files", "to_csv"} THEN paths
    ELSE sorted_by_name(paths)

\* Whether the loop of mode m makes a batch of file f or skips it.
accepted(m, f) ==
    CASE m \in {"individually", "pairs", "to_csv", "shot_list_files"} -> is_valid_txt(f)
      [] m = "script_files" ->
            FileExists(f) /\ Lower(suffix(FileName(f))) \in {S_txt, S_rtf}
      [] OTHER -> TRUE

\* One batch per accepted file of the list, in the order of the list.
RECURSIVE singletons(_, _)
singletons(m, files) ==
    IF files = <<>> THEN <<>>
    ELSE IF accepted(m, files[1]) THEN <<<<files[1]>>>> \o singletons(m, Tail(files))
    ELSE singletons(m, Tail(files))

\* The accepted files of each window of two, from position i (counted from
\* 0) on; windows without an accepted file make no batch.
RECURSIVE pairs_from(_, _)
pairs_from(sorted, i) ==
    IF i >= Len(sorted) THEN <<>>
    ELSE IF SelectSeq(window(sorted, i), is_valid_txt) = <<>> THEN pairs_from(sorted, i + 2)
    ELSE <<SelectSeq(window(sorted, i), is_valid_txt)>> \o pairs_from(sorted, i + 2)

\* The batches the function of mode m makes of the candidate list paths, in
\* the order in which its loop reaches them.
PlannedBatches(m, paths) ==
    CASE m \in {"individually", "script_files", "shot_list_files"} ->
            singletons(m, loop_order(m, paths))
      [] m = "pairs" -> pairs_from(loop_order(m, paths), 0)
      [] m = "to_csv" ->
            IF SelectSeq(sorted_by_name(paths), is_valid_txt) = <<>> THEN <<>>
            ELSE <<SelectSeq(sorted_by_name(paths), is_valid_txt)>>
      [] OTHER -> IF paths = <<>> THEN <<>> ELSE <<loop_order(m, paths)>>

Init ==
    /\ pc = "start"
    /\ mode \in Modes
    /\ file_paths \in CandidateLists(mode)
    /\ characters_file \in (IF mode \in {"shot_list_files", "combined_shot_lists"}
                            THEN CharactersTexts ELSE {<<>>})
    /\ sorted_files = <<>> /\ idx = 0 /\ pair_num = 0 /\ calls = <<>>
    /\ successful_conversions = 0 /\ attempted = <<>> /\ warnings = <<>>
    /\ outputs = NoFiles
    /\ IdleKey /\ IdleExtract /\ IdleCons /\ IdleCli

\* The function is entered: the output directory is made, the files sorted.
Begin ==
    /\ pc = "start"
    /\ sorted_files' = loop_order(mode, file_paths)
    /\ pair_num' = (IF mode = "pairs" THEN 1 ELSE 0)
    /\ pc' = "loop"
    /\ UNCHANGED <<cliVars, consVars, keyVars, extractVars, mode, file_paths, characters_file, idx, calls, outputs,
                   successful_conversions, attempted, warnings>>

\* parse_prompts is called with the payload; unless the caller finds the
\* output failed, the table is extracted to output_path.
TableCall(files, payload, output_path, step) ==
    \E api \in TableApiResults :
    \E structured_output \in {parse_prompts(api)} :
        IF is_failed_output(structured_output)
        THEN /\ calls' = Append(calls, CallRecord(files, payload, structured_output,
                                                  "none", output_path))
             /\ outputs' = outputs
             /\ idx' = advance(idx, step, TRUE)
        ELSE \E parsed \in {parse_rows(structured_output)} :
             \E io \in IoOutcomes(Len(parsed.records)) :
             \E r \in {write_csv(parsed, output_path, outputs, io)} :
                /\ calls' = Append(calls, CallRecord(files, payload, structured_output,
                                                     BoolStr(r.returned), output_path))
                /\ outputs' = r.fs
                /\ idx' = advance(idx, step, ~r.returned)

\* One iteration of the loop of process_prompt_files_individually.
IndividuallyStep ==
    /\ pc = "loop" /\ mode = "individually" /\ idx < Len(sorted_files)
    /\ LET prompt_file_path == sorted_files[idx + 1]
       IN IF ~FileExists(prompt_file_path)
                \/ Lower(suffix(FileName(prompt_file_path))) # S_txt
          THEN /\ warnings' = Append(warnings, <<"invalid", prompt_file_path>>)
               /\ idx' = advance(idx, 1, FALSE)
               /\ UNCHANGED <<calls, outputs, attempted>>
          ELSE /\ attempted' = Append(attempted, <<prompt_file_path>>)
               /\ IF read_prompt_file(prompt_file_path) = <<>>
                  THEN /\ warnings' = Append(warnings, <<"empty", prompt_file_path>>)
                       /\ idx' = advance(idx, 1, TRUE)
                       /\ UNCHANGED <<calls, outputs>>
                  ELSE /\ TableCall(<<prompt_file_path>>,
                                    read_prompt_file(prompt_file_path),
                                    stem(FileName(prompt_file_path)) \o <<"_">>
                                        \o S_prompts_table_csv, 1)
                       /\ UNCHANGED warnings
    /\ UNCHANGED <<cliVars, consVars, pc, keyVars, extractVars, mode, file_paths, characters_file, sorted_files,
                   pair_num, successful_conversions>>

\* fname of process_prompt_files_in_pairs
pair_fname(pair_files) ==
    IF Len(pair_files) = 1 THEN stem(FileName(pair_files[1]))
    ELSE stem(FileName(pair_files[1])) \o <<"_">> \o stem(FileName(pair_files[2]))

\* One iteration of the loop of process_prompt_files_in_pairs.
PairsStep ==
    /\ pc = "loop" /\ mode = "pairs" /\ idx < Len(sorted_files)
    /\ LET pair_files == SelectSeq(window(sorted_files, idx), is_valid_txt)
       IN IF pair_files = <<>>
          THEN /\ idx' = advance(idx, 2, FALSE)
               /\ UNCHANGED <<calls, outputs, attempted, warnings, pair_num>>
          ELSE /\ attempted' = Append(attempted, pair_files)
               /\ pair_num' = pair_num + 1
               /\ IF concatenate_prompt_files(pair_files) = <<>>
                  THEN /\ warnings' = Append(warnings
                                              \o concatenate_warnings(sorted_by_name(pair_files)),
                                          <<"empty_pair", pair_files[1]>>)
                       /\ idx' = advance(idx, 2, TRUE)
                       /\ UNCHANGED <<calls, outputs>>
                  ELSE /\ TableCall(pair_files, concatenate_prompt_files(pair_files),
                                    pair_fname(pair_files) \o <<"_">>
                                        \o S_prompts_table_csv, 2)
                       /\ warnings' = warnings
                                          \o concatenate_warnings(sorted_by_name(pair_files))
    /\ UNCHANGED <<cliVars, consVars, pc, keyVars, extractVars, mode, file_paths, characters_file, sorted_files,
                   successful_conversions>>

\* process_prompt_files_to_csv: one call for all files.
ToCsv ==
    /\ pc = "loop" /\ mode = "to_csv"
    /\ LET batch == SelectSeq(sorted_by_name(sorted_files), is_valid_txt)
       IN /\ attempted' = (IF batch = <<>> THEN attempted ELSE Append(attempted, batch))
          /\ IF concatenate_prompt_files(sorted_files) = <<>>
             THEN /\ warnings' = Append(warnings
                                         \o concatenate_warnings(sorted_by_name(sorted_files)),
                                     <<"no_content", "all">>)
                  /\ UNCHANGED <<calls, outputs, idx>>
             ELSE /\ TableCall(batch, concatenate_prompt_files(sorted_files),
                               S_prompts_table_csv, 1)
                  /\ warnings' = warnings
                                     \o concatenate_warnings(sorted_by_name(sorted_files))
    /\ pc' = "done"
    /\ UNCHANGED <<cliVars, consVars, keyVars, extractVars, mode, file_paths, characters_file, sorted_files, pair_num,
                   successful_conversions>>

\* One iteration of the loop of process_script_files.
ScriptFilesStep ==
    /\ pc = "loop" /\ mode = "script_files" /\ idx < Len(sorted_files)
    /\ LET script_path == sorted_files[idx + 1]
       IN IF ~FileExists(script_path)
          THEN /\ warnings' = Append(warnings, <<"not_found", script_path>>)
               /\ idx' = advance(idx, 1, FALSE)
               /\ UNCHANGED <<calls, outputs, attempted, successful_conversions>>
          ELSE IF Lower(suffix(FileName(script_path))) \notin {S_txt, S_rtf}
          THEN /\ warnings' = Append(warnings, <<"unsupported", script_path>>)
               /\ idx' = advance(idx, 1, FALSE)
               /\ UNCHANGED <<calls, outputs, attempted, successful_conversions>>
          ELSE /\ attempted' = Append(attempted, <<script_path>>)
               /\ IF read_script_file(script_path) = <<>>
                  THEN /\ warnings' = Append(warnings, <<"empty", script_path>>)
                       /\ idx' = advance(idx, 1, TRUE)
                       /\ UNCHANGED <<calls, outputs, successful_conversions>>
                  ELSE /\ \E api \in TextApiResults :
                          \E io \in SaveOutcomes :
                          \E shot_list \in {generate_shot_list(api, FileName(script_path))} :
                          \E output_path \in {stem(FileName(script_path)) \o S_shot_list_txt} :
                          \E r \in {save_shot_list(shot_list, output_path, outputs, io)} :
                             /\ calls' = Append(calls, CallRecord(<<script_path>>,
                                    script_user_content(FileName(script_path),
                                                        read_script_file(script_path)),
                                    shot_list, BoolStr(r.returned), output_path))
                             /\ outputs' = r.fs
                             /\ successful_conversions' =
                                    (IF r.returned THEN successful_conversions + 1
                                     ELSE successful_conversions)
                             /\ idx' = advance(idx, 1, ~r.returned)
                       /\ UNCHANGED warnings
    /\ UNCHANGED <<cliVars, consVars, pc, keyVars, extractVars, mode, file_paths, characters_file, sorted_files, pair_num>>

\* One iteration of the loop of process_shot_list_files.
ShotListFilesStep ==
    /\ pc = "loop" /\ mode = "shot_list_files" /\ idx < Len(sorted_files)
    /\ LET shot_list_path == sorted_files[idx + 1]
       IN IF ~FileExists(shot_list_path)
          THEN /\ warnings' = Append(warnings, <<"not_found", shot_list_path>>)
               /\ idx' = advance(idx, 1, FALSE)
               /\ UNCHANGED <<calls, outputs, attempted, successful_conversions>>
          ELSE IF Lower(suffix(FileName(shot_list_path))) # S_txt
          THEN /\ warnings' = Append(warnings, <<"unsupported", shot_list_path>>)
               /\ idx' = advance(idx, 1, FALSE)
               /\ UNCHANGED <<calls, outputs, attempted, successful_conversions>>
          ELSE /\ attempted' = Append(attempted, <<shot_list_path>>)
               /\ IF read_shot_list_file(shot_list_path) = <<>>
                  THEN /\ warnings' = Append(warnings, <<"empty", shot_list_path>>)
                       /\ idx' = advance(idx, 1, TRUE)
                       /\ UNCHANGED <<calls, outputs, successful_conversions>>
                  ELSE /\ \E api \in TextApiResults :
                          \E io \in SaveOutcomes :
                          \E characters_content \in {read_characters_file(characters_file)} :
                          \E image_prompts \in {generate_image_prompts(api, FileName(shot_list_path))} :
                          \E output_path \in {stem(FileName(shot_list_path)) \o S_image_prompts_txt} :
                          \E r \in {save_image_prompts(image_prompts, output_path, outputs, io)} :
                             /\ calls' = Append(calls, CallRecord(<<shot_list_path>>,
                                    shot_list_user_content(characters_content,
                                        FileName(shot_list_path),
                                        read_shot_list_file(shot_list_path)),
                                    image_prompts, BoolStr(r.returned), output_path))
                             /\ outputs' = r.fs
                             /\ successful_conversions' =
                                    (IF r.returned THEN successful_conversions + 1
                                     ELSE successful_conversions)
                             /\ idx' = advance(idx, 1, ~r.returned)
                       /\ UNCHANGED warnings
    /\ UNCHANGED <<cliVars, consVars, pc, keyVars, extractVars, mode, file_paths, characters_file, sorted_files, pair_num>>

\* process_combined_script: one call for the joined contents.
CombinedScript ==
    /\ pc = "loop" /\ mode = "combined_script"
    /\ attempted' = (IF sorted_files = <<>> THEN attempted
                     ELSE Append(attempted, sorted_files))
    /\ IF full_script_content(sorted_files) = <<>>
       THEN /\ warnings' = Append(warnings, <<"no_content", "all">>)
            /\ UNCHANGED <<calls, outputs>>
       ELSE /\ \E api \in TextApiResults :
               \E io \in SaveOutcomes :
               \E shot_list \in {generate_shot_list(api, COMBINED_NAME \o S_Combined)} :
               \E output_path \in {COMBINED_NAME \o S_combined_shot_list_txt} :
               \E r \in {save_shot_list(shot_list, output_path, outputs, io)} :
                  /\ calls' = Append(calls, CallRecord(sorted_files,
                         script_user_content(COMBINED_NAME \o S_Combined,
                             Join(full_script_content(sorted_files), <<"\n", "\n">>)),
                         shot_list, BoolStr(r.returned), output_path))
                  /\ outputs' = r.fs
            /\ UNCHANGED warnings
    /\ pc' = "done"
    /\ UNCHANGED <<cliVars, consVars, keyVars, extractVars, mode, file_paths, characters_file, sorted_files, idx, pair_num,
                   successful_conversions>>

\* process_combined_shot_lists: one call for the joined contents.
CombinedShotLists ==
    /\ pc = "loop" /\ mode = "combined_shot_lists"
    /\ attempted' = (IF sorted_files = <<>> THEN attempted
                     ELSE Append(attempted, sorted_files))
    /\ IF full_shot_list_content(sorted_files) = <<>>
       THEN /\ warnings' = Append(warnings, <<"no_content", "all">>)
            /\ UNCHANGED <<calls, outputs>>
       ELSE /\ \E api \in TextApiResults :
               \E io \in SaveOutcomes :
               \E characters_content \in {read_characters_file(characters_file)} :
               \E image_prompts \in {generate_image_prompts(api, COMBINED_NAME \o S_Combined)} :
               \E output_path \in {COMBINED_NAME \o S_combined_image_prompts_txt} :
               \E r \in {save_image_prompts(image_prompts, output_path, outputs, io)} :
                  /\ calls' = Append(calls, CallRecord(sorted_files,
                         shot_list_user_content(characters_content,
                             COMBINED_NAME \o S_Combined,
                             Join(full_shot_list_content(sorted_files), <<"\n", "\n">>)),
                         image_prompts, BoolStr(r.returned), output_path))
                  /\ outputs' = r.fs
            /\ UNCHANGED warnings
    /\ pc' = "done"
    /\ UNCHANGED <<cliVars, consVars, keyVars, extractVars, mode, file_paths, characters_file, sorted_files, idx, pair_num,
                   successful_conversions>>

\* The loop has gone through its list: the function returns.
Return ==
    /\ pc = "loop" /\ mode \in LoopModes /\ idx >= Len(sorted_files)
    /\ pc' = "done"
    /\ UNCHANGED <<cliVars, consVars, keyVars, extractVars, runVars, outputs>>

Next ==
    \/ Begin
    \/ IndividuallyStep
    \/ PairsStep
    \/ ToCsv
    \/ ScriptFilesStep
    \/ ShotListFilesStep
    \/ CombinedScript
    \/ CombinedShotLists
    \/ Return

Spec == Init /\ [][Next]_vars

---------------------------------------------------------------------------
(* tables_consolidate.py: the pandas operations consolidate_csv_files uses *)

\* A CSV file of the directory: a header line and rows of cell texts.
TableFile(header, rows) == [kind |-> "csv", header |-> header, rows |-> rows]

\* A file named *.csv that pd.read_csv cannot parse (it is empty or its rows
\* have more fields than its header).
BadFile == [kind |-> "bad", header |-> <<>>, rows |-> <<>>]

\* The values of a data frame: integers, floats (whole ones only), strings
\* and NaN.
IntVal(n) == [t |-> "int", n |-> n, s |-> <<>>]
FloatVal(n) == [t |-> "float", n |-> n, s |-> <<>>]
StrVal(s) == [t |-> "str", n |-> 0, s |-> s]
NaN == [t |-> "nan", n |-> 0, s |-> <<>>]

\* The cell text is a whole number.
IsIntText(text) == text # <<>> /\ \A i \in DOMAIN text : IsDecimal(text[i])

\* The cell text is a whole float, as to_csv writes one: digits and ".0".
IsFloatText(text) ==
    /\ Len(text) >= 3
    /\ SubSeq(text, Len(text) - 1, Len(text)) = <<".", "0">>
    /\ IsIntText(SubSeq(text, 1, Len(text) - 2))

\* The number a numeric cell text stands for.
NumberOf(text) ==
    IF IsFloatText(text) THEN IntOf(SubSeq(text, 1, Len(text) - 2)) ELSE IntOf(text)

\* The dtype pd.read_csv infers for a column from its cell texts.
inferred_dtype(cells) ==
    IF \A i \in DOMAIN cells : IsIntText(cells[i]) THEN "int64"
    ELSE IF \A i \in DOMAIN cells :
                IsIntText(cells[i]) \/ IsFloatText(cells[i]) \/ cells[i] = <<>>
    THEN "float64"
    ELSE "object"

\* The value pd.read_csv makes of a cell text in a column of the dtype.
parsed_value(text, dtype) ==
    IF text = <<>> THEN NaN
    ELSE IF dtype = "int64" THEN IntVal(IntOf(text))
    ELSE IF dtype = "float64" THEN FloatVal(NumberOf(text))
    ELSE StrVal(text)

\* A data frame: column names, a dtype per column, rows of values.
DataFrame(cols, dtypes, rows) == [columns |-> cols, dtypes |-> dtypes, rows |-> rows]

\* pd.read_csv(file_path): raised, or the data frame read.
read_csv(file) ==
    IF file.kind = "bad"
    THEN [raised |-> TRUE, df |-> DataFrame(<<>>, <<>>, <<>>)]
    ELSE LET dtypes == [c \in DOMAIN file.header |->
                           inferred_dtype([r \in DOMAIN file.rows |-> file.rows[r][c]])]
         IN [raised |-> FALSE,
             df |-> DataFrame(file.header, dtypes,
                        [r \in DOMAIN file.rows |->
                            [c \in DOMAIN file.header |->
                                parsed_value(file.rows[r][c], dtypes[c])]])]

\* The position of name c in the column list, 0 when absent.
column_position(cols, c) ==
    IF \E i \in DOMAIN cols : cols[i] = c
    THEN CHOOSE i \in DOMAIN cols : cols[i] = c /\ \A j \in 1..(i - 1) : cols[j] # c
    ELSE 0

\* A mutant of reindex: the columns of the frame are kept as they are.
reindex_keep(df, cols) == df

\* df.reindex(columns=cols): the columns named in cols, in that order; a
\* column the frame lacks is a float64 column of NaN.
reindex(df, cols) ==
    DataFrame(cols,
        [k \in DOMAIN cols |->
            IF column_position(df.columns, cols[k]) = 0 THEN "float64"
            ELSE df.dtypes[column_position(df.columns, cols[k])]],
        [r \in DOMAIN df.rows |->
            [k \in DOMAIN cols |->
                IF column_position(df.columns, cols[k]) = 0 THEN NaN
                ELSE df.rows[r][column_position(df.columns, cols[k])]]])

\* The dtype pd.concat gives a column whose parts have the dtypes.
common_dtype(dtypes) ==
    IF dtypes \subseteq {"int64"} THEN "int64"
    ELSE IF dtypes \subseteq {"int64", "float64"} THEN "float64"
    ELSE "object"

\* The value of a column of the dtype that pd.concat makes of value v.
cast_value(v, dtype) ==
    IF dtype = "float64" /\ v.t = "int" THEN FloatVal(v.n) ELSE v

\* All rows of the frames, in order.
RECURSIVE all_rows(_)
all_rows(frames) ==
    IF frames = <<>> THEN <<>> ELSE frames[1].rows \o all_rows(Tail(frames))

\* pd.concat(dataframes, ignore_index=True) of frames with the same columns.
concat(frames) ==
    LET cols == frames[1].columns
        dtypes == [k \in DOMAIN cols |->
                      common_dtype({frames[f].dtypes[k] : f \in DOMAIN frames})]
        rows == all_rows(frames)
    IN DataFrame(cols, dtypes,
           [r \in DOMAIN rows |-> [k \in DOMAIN cols |-> cast_value(rows[r][k], dtypes[k])]])

\* The decimal text of a natural number.
RECURSIVE IntText(_)
IntText(n) ==
    IF n < 10 THEN <<Alphabet[Ord("0") + n]>>
    ELSE IntText(n \div 10) \o <<Alphabet[Ord("0") + (n % 10)]>>

\* The text to_csv writes for a value.
written_text(v) ==
    CASE v.t = "int" -> IntText(v.n)
      [] v.t = "float" -> IntText(v.n) \o <<".", "0">>
      [] v.t = "str" -> v.s
      [] v.t = "nan" -> <<>>

\* consolidated_df.to_csv(output_file, index=False): the file written.
to_csv(df) ==
    TableFile(df.columns,
        [r \in DOMAIN df.rows |-> [k \in DOMAIN df.columns |-> written_text(df.rows[r][k])]])

---------------------------------------------------------------------------
(* tables_consolidate.py: consolidate_csv_files *)

\* The files a directory can hold.
ConsIds == {"full", "two", "no_scene", "extra", "reordered", "bad", "bad5", "notes"}

ConsName(f) ==
    CASE f = "full" -> <<"t", "_", "1", ".", "c", "s", "v">>
      [] f = "two" -> <<"t", "_", "2", ".", "c", "s", "v">>
      [] f = "no_scene" -> <<"t", "_", "3", ".", "c", "s", "v">>
      [] f = "extra" -> <<"t", "_", "1", "0", ".", "c", "s", "v">>
      [] f = "reordered" -> <<"t", "_", "0", "1", ".", "c", "s", "v">>
      [] f = "bad" -> <<"t", "_", "0", ".", "c", "s", "v">>
      [] f = "bad5" -> <<"t", "_", "5", ".", "c", "s", "v">>
      [] f = "notes" -> <<"n", "o", "t", "e", "s", ".", "t", "x", "t">>
      [] f = "consolidated" ->
            <<"c", "o", "n", "s", "o", "l", "i", "d", "a", "t", "e", "d", ".", "c", "s", "v">>

ConsFile(f) ==
    CASE f = "full" ->
            TableFile(<<"scene", "shot", "prompt">>, << <<<<"1">>, <<"1", "A">>, <<"p">>>> >>)
      [] f = "two" ->
            TableFile(<<"scene", "shot", "prompt">>,
                      << <<<<"2">>, <<"2", "A">>, <<"q">>>>, <<<<"2">>, <<"2", "B">>, <<"q">>>> >>)
      [] f = "no_scene" ->
            TableFile(<<"shot", "prompt">>, << <<<<"3", "A">>, <<"r">>>> >>)
      [] f = "extra" ->
            TableFile(<<"scene", "shot", "prompt", "notes">>,
                      << <<<<"1", "0">>, <<"1", "0", "A">>, <<"s">>, <<"n">>>> >>)
      [] f = "reordered" ->
            TableFile(<<"prompt", "scene", "shot">>, << <<<<"p">>, <<"1">>, <<"1", "B">>>> >>)
      [] f \in {"bad", "bad5"} -> BadFile
      [] f = "notes" -> BadFile

\* The file of the directory behind an entry: consolidated.csv is the table
\* the earlier run wrote.
DirFile(f) == IF f = "consolidated" THEN first_table ELSE ConsFile(f)

\* glob("*.csv") of the directory, in listing order.
glob_csv(entries) == SelectSeq(entries, LAMBDA f : suffix(ConsName(f)) = <<".", "c", "s", "v">>)

\* f put into a list sorted by natural_sort_key of the name, behind every
\* element that is not greater.
RECURSIVE insert_by_key(_, _)
insert_by_key(sorted, f) ==
    IF sorted = <<>> THEN <<f>>
    ELSE IF KeyLess(ConsName(f), ConsName(sorted[1])) = "lt" THEN <<f>> \o sorted
    ELSE <<sorted[1]>> \o insert_by_key(Tail(sorted), f)

\* csv_files.sort(key=lambda x: natural_sort_key(x.name)): a stable sort.
RECURSIVE sort_csv_files(_)
sort_csv_files(files) ==
    IF files = <<>> THEN <<>>
    ELSE insert_by_key(sort_csv_files(SubSeq(files, 1, Len(files) - 1)), files[Len(files)])

\* The directories of the runs: up to MaxFiles entries without repetition.
Directories ==
    {NoDirectory} \cup
    {[exists |-> TRUE, entries |-> e] : e \in
        {s \in UNION {[1..n -> ConsIds] : n \in 0..MaxFiles} :
            \A i, j \in DOMAIN s : i # j => s[i] # s[j]}}

CONSOLIDATED == "consolidated.csv"

InitConsolidate ==
    /\ pc = "c_start"
    /\ IdleKey /\ IdleExtract /\ IdleRun /\ IdleCli /\ outputs = <<>>
    /\ directory \in Directories
    /\ csv_files = <<>> /\ file_index = 0
    /\ columns = NoColumns /\ dataframes = <<>> /\ skipped = <<>>
    /\ result = "none"
    /\ run = 1 /\ first_table = NoTable

\* Lines 47-62: the directory check, the glob and the sort.
ConsolidateBegin ==
    /\ pc = "c_start"
    /\ IF ~directory.exists
       THEN /\ result' = "FileNotFoundError"
            /\ pc' = "c_done"
            /\ UNCHANGED <<csv_files, file_index>>
       ELSE IF glob_csv(directory.entries) = <<>>
       THEN /\ result' = "ValueError: No CSV files found"
            /\ pc' = "c_done"
            /\ UNCHANGED <<csv_files, file_index>>
       ELSE /\ csv_files' = sort_csv_files(glob_csv(directory.entries))
            /\ file_index' = 1
            /\ pc' = "c_loop"
            /\ UNCHANGED result
    /\ UNCHANGED <<cliVars, keyVars, extractVars, runVars, outputs, directory, columns,
                   dataframes, skipped, run, first_table>>

\* A mutant of next_index: the loop ends at a file that cannot be read.
next_index_abort(i, raised) == IF raised THEN Len(csv_files) + 1 ELSE i + 1

\* The index of the next turn of the loop: the except clause continues.
next_index(i, raised) == i + 1

\* Lines 73-94: one turn of the loop over csv_files.
ConsolidateStep ==
    /\ pc = "c_loop"
    /\ file_index <= Len(csv_files)
    /\ \E r \in {read_csv(DirFile(csv_files[file_index]))} :
          IF r.raised
          THEN /\ skipped' = Append(skipped, csv_files[file_index])
               /\ UNCHANGED <<columns, dataframes>>
          ELSE \E cols \in {IF columns.set THEN columns.names ELSE r.df.columns} :
                  /\ columns' = [set |-> TRUE, names |-> cols]
                  /\ dataframes' = Append(dataframes,
                         IF r.df.columns # cols THEN reindex(r.df, cols) ELSE r.df)
                  /\ UNCHANGED skipped
    /\ file_index' = next_index(file_index, read_csv(DirFile(csv_files[file_index])).raised)
    /\ UNCHANGED <<cliVars, keyVars, extractVars, runVars, outputs, pc, directory, csv_files,
                   result, run, first_table>>

\* Lines 96-117: the check for frames, the concatenation and the write.
ConsolidateFinish ==
    /\ pc = "c_loop"
    /\ file_index > Len(csv_files)
    /\ IF dataframes = <<>>
       THEN /\ result' = "ValueError: No valid CSV files"
            /\ UNCHANGED outputs
       ELSE /\ outputs' = (CONSOLIDATED :> to_csv(concat(dataframes))) @@ outputs
            /\ result' = CONSOLIDATED
    /\ pc' = "c_done"
    /\ UNCHANGED <<cliVars, keyVars, extractVars, runVars, directory, csv_files, file_index,
                   columns, dataframes, skipped, run, first_table>>

\* consolidate_csv_files called once more on the same directory, with the
\* default output name: the directory now holds the consolidated.csv the
\* first run wrote (lines 104-110), and glob("*.csv") lists it (line 55).
ConsolidateAgain ==
    /\ pc = "c_done"
    /\ run = 1
    /\ result = CONSOLIDATED
    /\ run' = 2
    /\ first_table' = outputs[CONSOLIDATED]
    /\ directory' = [directory EXCEPT !.entries = Append(@, "consolidated")]
    /\ csv_files' = <<>>
    /\ file_index' = 0
    /\ columns' = NoColumns
    /\ dataframes' = <<>>
    /\ skipped' = <<>>
    /\ result' = "none"
    /\ pc' = "c_start"
    /\ UNCHANGED <<cliVars, keyVars, extractVars, runVars, outputs>>

NextConsolidate ==
    \/ ConsolidateBegin
    \/ ConsolidateStep
    \/ ConsolidateFinish
    \/ ConsolidateAgain

SpecConsolidate == InitConsolidate /\ [][NextConsolidate]_vars

---------------------------------------------------------------------------
(* The command-line entry points: main of the four programs *)

ApiPrograms == {"prompts2tables", "script2shots", "shots2prompts_MJ"}

Programs == ApiPrograms \cup {"tables_consolidate"}

\* The answers the mode question (prompts2tables) or the combine question
\* (script2shots, shots2prompts_MJ) can get.
Choices(p) == IF p = "prompts2tables" THEN {"individual", "pairs"} ELSE {"combine", "separate"}

\* The value of process_choice or combine_files when the question is not asked.
DefaultChoice(p) == IF p = "prompts2tables" THEN "individual" ELSE "separate"

\* What inquirer.prompt gives back: answers, or None when the user cancels.
PromptOutcomes == {"answered", "cancelled"}

\* The exit status after the user cancels the question: sys.exit(0) where
\* main checks for it; get_api_key_if_needed subscripts the None of a
\* cancelled prompt, and main's except Exception exits with 1; the main of
\* tables_consolidate returns 1, which exit(main()) makes the status.
cancel_status(p, question) ==
    IF p = "tables_consolidate" THEN 1
    ELSE IF question \in {"provide_key", "api_key"} THEN 1
    ELSE 0

InitCli ==
    /\ program \in Programs
    /\ pc = (IF program = "tables_consolidate" THEN "t_dir" ELSE "m_inputs")
    /\ inputs = NoInputs /\ found_files = 0
    /\ process_choice = "none" /\ api_key = "none"
    /\ exit_status = -1 /\ exit_cause = "none"
    /\ IdleKey /\ IdleExtract /\ IdleRun /\ IdleCons /\ outputs = <<>>

\* The process ends with the status.
Exit(status, cause) ==
    /\ pc' = "m_exit"
    /\ exit_status' = status
    /\ exit_cause' = cause

\* get_user_inputs: the three questions about the input path, the output
\* directory and verbose logging.
GetUserInputs ==
    /\ pc = "m_inputs" /\ program \in ApiPrograms
    /\ \E o \in PromptOutcomes :
          IF o = "cancelled"
          THEN /\ Exit(cancel_status(program, "inputs"), "cancelled")
               /\ UNCHANGED inputs
          ELSE /\ inputs' \in [is_dir : BOOLEAN, path_exists : BOOLEAN, verbose : BOOLEAN]
               /\ pc' = "m_validate"
               /\ UNCHANGED <<exit_status, exit_cause>>
    /\ UNCHANGED <<program, found_files, process_choice, api_key, keyVars, extractVars,
                   runVars, consVars, outputs>>

\* main: the checks of the input path and of the files found in it.
ValidateInput ==
    /\ pc = "m_validate" /\ program \in ApiPrograms
    /\ IF ~inputs.path_exists
       THEN /\ Exit(1, "missing_input")
            /\ UNCHANGED <<found_files, process_choice>>
       ELSE \E n \in 0..(IF inputs.is_dir THEN MaxFiles ELSE 1) :
               IF n = 0
               THEN /\ Exit(1, "no_files")
                    /\ UNCHANGED <<found_files, process_choice>>
               ELSE /\ found_files' = n
                    /\ process_choice' = DefaultChoice(program)
                    /\ pc' = (IF inputs.is_dir /\ n > 1 THEN "m_choice" ELSE "m_key")
                    /\ UNCHANGED <<exit_status, exit_cause>>
    /\ UNCHANGED <<program, inputs, api_key, keyVars, extractVars, runVars, consVars,
                   outputs>>

\* main: the mode question or the combine question.
ChoiceQuestion ==
    /\ pc = "m_choice" /\ program \in ApiPrograms
    /\ \E o \in PromptOutcomes :
          IF o = "cancelled"
          THEN /\ Exit(cancel_status(program, "choice"), "cancelled")
               /\ UNCHANGED process_choice
          ELSE /\ process_choice' \in Choices(program)
               /\ pc' = "m_key"
               /\ UNCHANGED <<exit_status, exit_cause>>
    /\ UNCHANGED <<program, inputs, found_files, api_key, keyVars, extractVars, runVars,
                   consVars, outputs>>

\* get_api_key_if_needed: the key of the environment, or the question
\* whether to provide one.
GetApiKey ==
    /\ pc = "m_key" /\ program \in ApiPrograms
    /\ \/ /\ api_key' = "environment"
          /\ pc' = "m_client"
          /\ UNCHANGED <<exit_status, exit_cause>>
       \/ \E o \in PromptOutcomes : \E provide_key \in BOOLEAN :
             /\ UNCHANGED api_key
             /\ IF o = "cancelled"
                THEN Exit(cancel_status(program, "provide_key"), "cancelled")
                ELSE IF ~provide_key
                THEN Exit(1, "declined")
                ELSE /\ pc' = "m_key_entry"
                     /\ UNCHANGED <<exit_status, exit_cause>>
    /\ UNCHANGED <<program, inputs, found_files, process_choice, keyVars, extractVars,
                   runVars, consVars, outputs>>

\* get_api_key_if_needed: the question for the key itself.
EnterApiKey ==
    /\ pc = "m_key_entry" /\ program \in ApiPrograms
    /\ \E o \in PromptOutcomes :
          IF o = "cancelled"
          THEN /\ Exit(cancel_status(program, "api_key"), "cancelled")
               /\ UNCHANGED api_key
          ELSE /\ api_key' = "typed"
               /\ pc' = "m_client"
               /\ UNCHANGED <<exit_status, exit_cause>>
    /\ UNCHANGED <<program, inputs, found_files, process_choice, keyVars, extractVars,
                   runVars, consVars, outputs>>

\* main: create_gemini_client and the creation of the output directory.
SetUp ==
    /\ pc = "m_client" /\ program \in ApiPrograms
    /\ \E o \in {"ok", "client_failed", "mkdir_failed"} :
          IF o = "ok"
          THEN /\ pc' = "m_process"
               /\ UNCHANGED <<exit_status, exit_cause>>
          ELSE Exit(1, o)
    /\ UNCHANGED <<program, inputs, found_files, process_choice, api_key, keyVars,
                   extractVars, runVars, consVars, outputs>>

\* main: the processing function returns, is interrupted from the keyboard,
\* or raises.
Process ==
    /\ pc = "m_process" /\ program \in ApiPrograms
    /\ \E o \in {"finished", "interrupted", "error"} :
          Exit(IF o = "error" THEN 1 ELSE 0, o)
    /\ UNCHANGED <<program, inputs, found_files, process_choice, api_key, keyVars,
                   extractVars, runVars, consVars, outputs>>

\* tables_consolidate.main: the question for the input directory.
DirectoryQuestion ==
    /\ pc = "t_dir" /\ program = "tables_consolidate"
    /\ \E o \in PromptOutcomes :
          IF o = "cancelled"
          THEN /\ Exit(cancel_status(program, "input_directory"), "cancelled")
               /\ UNCHANGED inputs
          ELSE /\ inputs' = [is_dir |-> TRUE, path_exists |-> TRUE, verbose |-> FALSE]
               /\ pc' = "t_check"
               /\ UNCHANGED <<exit_status, exit_cause>>
    /\ UNCHANGED <<program, found_files, process_choice, api_key, keyVars, extractVars,
                   runVars, consVars, outputs>>

\* tables_consolidate.main: the check for *.csv files in the directory.
CsvCheck ==
    /\ pc = "t_check" /\ program = "tables_consolidate"
    /\ \E n \in 0..MaxFiles :
          IF n = 0
          THEN /\ Exit(1, "no_files")
               /\ UNCHANGED found_files
          ELSE /\ found_files' = n
               /\ pc' = "t_custom"
               /\ UNCHANGED <<exit_status, exit_cause>>
    /\ UNCHANGED <<program, inputs, process_choice, api_key, keyVars, extractVars,
                   runVars, consVars, outputs>>

\* tables_consolidate.main: the question whether to name the output file.
CustomOutputQuestion ==
    /\ pc = "t_custom" /\ program = "tables_consolidate"
    /\ \E o \in PromptOutcomes : \E custom_output \in BOOLEAN :
          IF o = "cancelled"
          THEN /\ Exit(cancel_status(program, "custom_output"), "cancelled")
               /\ UNCHANGED process_choice
          ELSE /\ process_choice' = (IF custom_output THEN "custom" ELSE "default")
               /\ pc' = (IF custom_output THEN "t_outfile" ELSE "t_run")
               /\ UNCHANGED <<exit_status, exit_cause>>
    /\ UNCHANGED <<program, inputs, found_files, api_key, keyVars, extractVars, runVars,
                   consVars, outputs>>

\* tables_consolidate.main: the question for the output file.
OutputFileQuestion ==
    /\ pc = "t_outfile" /\ program = "tables_consolidate"
    /\ \E o \in PromptOutcomes :
          IF o = "cancelled"
          THEN Exit(cancel_status(program, "output_file"), "cancelled")
          ELSE /\ pc' = "t_run"
               /\ UNCHANGED <<exit_status, exit_cause>>
    /\ UNCHANGED <<program, inputs, found_files, process_choice, api_key, keyVars,
                   extractVars, runVars, consVars, outputs>>

\* tables_consolidate.main: consolidate_csv_files returns or raises.
RunConsolidation ==
    /\ pc = "t_run" /\ program = "tables_consolidate"
    /\ \E o \in {"finished", "error"} : Exit(IF o = "error" THEN 1 ELSE 0, o)
    /\ UNCHANGED <<program, inputs, found_files, process_choice, api_key, keyVars,
                   extractVars, runVars, consVars, outputs>>

NextCli ==
    \/ GetUserInputs
    \/ ValidateInput
    \/ ChoiceQuestion
    \/ GetApiKey
    \/ EnterApiKey
    \/ SetUp
    \/ Process
    \/ DirectoryQuestion
    \/ CsvCheck
    \/ CustomOutputQuestion
    \/ OutputFileQuestion
    \/ RunConsolidation

SpecCli == InitCli /\ [][NextCli]_vars

---------------------------------------------------------------------------
(* Definitions shared by the claims about runs *)

SingletonModes == {"individually", "script_files", "shot_list_files"}

TableModes == {"individually", "pairs", "to_csv"}

\* The name of file a is before the name of file b in natural order.
NameBefore(a, b) == KeyLess(FileName(a), FileName(b)) = "lt"

\* The external call failed: its text is empty or starts with the error
\* prefix.
FailedResponse(text) == text = <<>> \/ StartsWith(text, S_Error)

RECURSIVE Flatten(_)
Flatten(batches) ==
    IF batches = <<>> THEN <<>> ELSE batches[1] \o Flatten(Tail(batches))

Range(q) == {q[i] : i \in DOMAIN q}

\* The enumerations of the files of list l.
Enumerations(l) == {q \in [DOMAIN l -> Range(l)] : Range(q) = Range(l)}

---------------------------------------------------------------------------
(* C1 *)

\* C1: under the one-file-per-batch policy of every pipeline the external
\* calls are made in natural order of the file names, whatever the order of
\* the candidate list: no call is made for a file whose name is before the
\* name of a file called earlier.
C1_SingletonNaturalOrder ==
    mode \in SingletonModes =>
        \A i, j \in DOMAIN calls :
            i < j => ~NameBefore(calls[j].files[1], calls[i].files[1])

---------------------------------------------------------------------------
(* C2 *)

AllCandidatesValid == \A i \in DOMAIN file_paths : is_valid_txt(file_paths[i])

\* C2: in pair mode with valid candidates only, when the run is done every
\* candidate is in exactly one batch, the batches one after the other list
\* the files in natural order of their names, every batch but the last has
\* 2 files and the last 1 or 2, and the calls are made in batch order for
\* the files of their batch.
C2_PairWindows ==
    (mode = "pairs" /\ pc = "done" /\ AllCandidatesValid) =>
        \A flat \in {Flatten(attempted)} :
            /\ Len(flat) = Len(file_paths)
            /\ Range(flat) = Range(file_paths)
            /\ \A i, j \in DOMAIN flat : i < j => ~NameBefore(flat[j], flat[i])
            /\ \A b \in DOMAIN attempted :
                  \/ Len(attempted[b]) = 2
                  \/ b = Len(attempted) /\ Len(attempted[b]) = 1
            /\ \A i \in DOMAIN calls :
                  /\ calls[i].batch \in DOMAIN attempted
                  /\ calls[i].files = attempted[calls[i].batch]
                  /\ \A j \in DOMAIN calls : i < j => calls[i].batch < calls[j].batch

\* Five candidates returned out of order have been processed as
\* [[f1,f2],[f3,f4],[f5]], each batch with its call.
C2_Witness ==
    /\ mode = "pairs" /\ pc = "done"
    /\ file_paths = <<"c10", "c3", "c1", "c4", "c2">>
    /\ attempted = <<<<"c1", "c2">>, <<"c3", "c4">>, <<"c10">>>>
    /\ Len(calls) = 3

---------------------------------------------------------------------------
(* C4 *)

\* C4: the batches of a run of the tabular pipeline are a function of the set
\* of candidates and the policy: every enumeration of the same candidates
\* gives the batches the run made, with the same contents in the same order.
C4_PlanIsFunctionOfSet ==
    (mode \in TableModes /\ pc = "done") =>
        \A q \in Enumerations(file_paths) : PlannedBatches(mode, q) = attempted

---------------------------------------------------------------------------
(* C5 *)

\* C5: in every pipeline, a call whose text is empty or starts with the error
\* prefix has no output written for it and is not counted as a success.
C5_FailedCallLeavesNoOutput ==
    /\ \A i \in DOMAIN calls :
          FailedResponse(calls[i].response) => calls[i].written = "none"
    /\ successful_conversions
          <= Cardinality({i \in DOMAIN calls : ~FailedResponse(calls[i].response)})

---------------------------------------------------------------------------
(* C6 *)

\* C6: when the run is done, the batches reached are all the batches of the
\* candidate list, in order, whatever failed on the way (an empty payload,
\* the call, the extraction, the write), and the output of every call whose
\* output was written is in the output directory.
C6_FailureDoesNotStopRun ==
    pc = "done" =>
        /\ attempted = PlannedBatches(mode, file_paths)
        /\ \A i \in DOMAIN calls :
              calls[i].written = "True" => calls[i].path \in DOMAIN outputs

\* A run of three batches is done: the first had an empty payload or a failed
\* call, extraction or write, and the last one wrote its output.
C6_Witness ==
    /\ pc = "done" /\ mode \in LoopModes /\ Len(attempted) = 3
    /\ \/ calls = <<>>
       \/ calls[1].batch > 1
       \/ calls[1].written # "True"
    /\ calls # <<>>
    /\ calls[Len(calls)].batch = 3
    /\ calls[Len(calls)].written = "True"

---------------------------------------------------------------------------
(* C7 *)

\* C7: the calls made so far are for different batches of the candidate list,
\* in the order of the batches, each for the files of its batch, so there are
\* never more calls than batches; and no batch is reached twice.
C7_AtMostOneCallPerBatch ==
    \A planned \in {PlannedBatches(mode, file_paths)} :
        /\ Len(attempted) <= Len(planned)
        /\ Len(calls) <= Len(planned)
        /\ \A i \in DOMAIN calls :
              /\ calls[i].batch \in DOMAIN planned
              /\ calls[i].files = planned[calls[i].batch]
              /\ \A j \in DOMAIN calls : i < j => calls[i].batch < calls[j].batch

\* A run of three batches is done after a failed call and a failed extraction
\* or write, with three calls made.
C7_Witness ==
    /\ pc = "done" /\ Len(calls) = 3
    /\ \E i, j \in DOMAIN calls :
          /\ FailedResponse(calls[i].response)
          /\ calls[j].written = "False"

---------------------------------------------------------------------------
(* C9 *)

\* C9: in the tabular pipeline, a step that makes a call whose text is empty
\* or starts with the error prefix extracts nothing from it and leaves the
\* output directory as it was.
C9_FailedResponseWritesNothing ==
    [][(/\ mode \in TableModes
        /\ Len(calls') = Len(calls) + 1
        /\ FailedResponse(calls'[Len(calls')].response))
            => (/\ outputs' = outputs
                /\ calls'[Len(calls')].written = "none")]_vars

\* A call has returned the error prefix followed by a valid table.
C9_Witness ==
    /\ mode \in TableModes
    /\ calls # <<>>
    /\ calls[Len(calls)].response = R_ERR_TABLE
    /\ calls[Len(calls)].written = "none"

---------------------------------------------------------------------------
(* C3 *)

\* a and b are x d1 y and x d2 y, d1 and d2 maximal digit runs of lengths
\* la and lb starting after the common prefix of length i.
OneDigitRunApart(a, b, i, la, lb) ==
    /\ la >= 1 /\ lb >= 1 /\ i + la <= Len(a) /\ i + lb <= Len(b)
    /\ SubSeq(a, 1, i) = SubSeq(b, 1, i)
    /\ SubSeq(a, i + la + 1, Len(a)) = SubSeq(b, i + lb + 1, Len(b))
    /\ \A j \in (i + 1)..(i + la) : IsDecimal(a[j])
    /\ \A j \in (i + 1)..(i + lb) : IsDecimal(b[j])
    /\ (i >= 1 => ~IsDecimal(a[i]))
    /\ (i + la < Len(a) => ~IsDecimal(a[i + la + 1]))

\* C3: natural_sort_key orders by the integer value of digit runs: of two
\* names that differ in one digit run only, the one with the smaller integer
\* sorts first; names without digits sort in case-insensitive string order.
C3_NaturalOrder ==
    pc = "key_done" =>
        /\ \A i \in 0..Len(nameA) : \A la \in 1..Len(nameA) : \A lb \in 1..Len(nameB) :
              (/\ OneDigitRunApart(nameA, nameB, i, la, lb)
               /\ IntOf(SubSeq(nameA, i + 1, i + la)) < IntOf(SubSeq(nameB, i + 1, i + lb)))
              => (cmp.ab = "lt" /\ cmp.ba = "ge")
        /\ ((\A j \in 1..Len(nameA) : ~IsDigitChar(nameA[j]))
            /\ (\A j \in 1..Len(nameB) : ~IsDigitChar(nameB[j])))
              => /\ cmp.ab \in {"lt", "ge"}
                 /\ (cmp.ab = "lt") <=> StrLess(Lower(nameA), Lower(nameB))

C3_Witness ==
    /\ pc = "key_done" /\ nameA = N_chunk_2 /\ nameB = N_chunk_10
    /\ cmp.ab = "lt" /\ cmp.ba = "ge"
---------------------------------------------------------------------------
(* C8 *)

DataRowLines == {"ROW_1A", "ROW_1B", "ROW_2CELLS", "ROW_4CELLS"}

\* The response is an optional preamble, the header | Scene | Shot | Prompt |,
\* a dash separator row and then data rows only.
IsPlainTable(ids) ==
    \E h \in 1..2 :
        /\ Len(ids) >= h + 1
        /\ (h = 2 => ids[1] \in PreambleLines)
        /\ ids[h] = "HDR"
        /\ ids[h + 1] \in SeparatorLines
        /\ \A i \in (h + 2)..Len(ids) : ids[i] \in DataRowLines

\* The records of the lines of ids that are data rows with exactly 3 cells.
RECURSIVE ValidRecords(_)
ValidRecords(ids) ==
    IF ids = <<>> THEN <<>>
    ELSE IF ids[1] \in DataRowLines /\ Len(LineCells(ids[1])) = 3
         THEN <<RecordOf(LineCells(ids[1]))>> \o ValidRecords(Tail(ids))
         ELSE ValidRecords(Tail(ids))

\* C8: for a header row, a dash separator row and data rows, the Records
\* written are exactly the data rows with 3 cells, in response order, and
\* rows with another cell count are dropped without failing the extraction.
C8_PartialRecovery ==
    (/\ pc = "x_done" /\ io_outcome.kind = "ok"
     /\ IsPlainTable(table_lines) /\ ValidRecords(table_lines) # <<>>)
        => /\ returned = "True"
           /\ outputs[OUT_PATH].rows = ValidRecords(table_lines)

---------------------------------------------------------------------------
(* C10 *)

\* C10: every Record in a file the extractor wrote has exactly the fields
\* scene, shot and prompt, and they are the 3 cells of a line of the response
\* that has exactly 3 cells; no Record comes from a line with fewer or more.
C10_RecordsAreThreeCellRows ==
    (pc = "x_done" /\ io_outcome.kind \in {"ok", "write_fails"}) =>
        \A k \in 1..Len(outputs[OUT_PATH].rows) :
            LET rec == outputs[OUT_PATH].rows[k]
            IN /\ DOMAIN rec = {"scene", "shot", "prompt"}
               /\ \E i \in 1..Len(table_lines) :
                    /\ Len(LineCells(table_lines[i])) = 3
                    /\ rec = RecordOf(LineCells(table_lines[i]))

C10_Witness ==
    /\ pc = "x_done" /\ returned = "True"
    /\ table_lines = <<"HDR", "SEP", "ROW_4CELLS", "ROW_1A", "ROW_2CELLS">>
    /\ outputs[OUT_PATH].rows = <<RecordOf(LineCells("ROW_1A"))>>

---------------------------------------------------------------------------
(* C11 *)

\* The Records of the data rows of the catalogue that have 3 cells.
DataRecords == {RecordOf(LineCells(l)) : l \in {"ROW_1A", "ROW_1B"}}

\* C11: the extractor ends with success or failure for every response; it
\* returns success only when a Record of a data row was written, and it
\* returns failure when the response has no header line and when it has no
\* data row with 3 cells (no row or only the header row survives).
C11_FailureIsDistinct ==
    pc = "x_done" =>
        /\ returned \in {"True", "False"}
        /\ returned = "True" =>
              \E k \in 1..Len(outputs[OUT_PATH].rows) :
                  outputs[OUT_PATH].rows[k] \in DataRecords
        /\ (\A i \in DOMAIN table_lines : table_lines[i] \notin HeaderLines \cup {"HDR_AGAIN"})
              => returned = "False"
        /\ (\A i \in DOMAIN table_lines : table_lines[i] \notin {"ROW_1A", "ROW_1B"})
              => returned = "False"

---------------------------------------------------------------------------
(* C12 *)

ConcatModes == {"pairs", "to_csv"}

\* File f reads as empty or cannot be read.
ReadsEmpty(f) == ~FileExists(f) \/ Strip(FileText(f)) = <<>>

\* The boundary marker line of file f.
MarkerOf(f) == S_file_open \o FileName(f) \o S_file_close

\* The calls made for batch b.
CallsFor(b) == {i \in DOMAIN calls : calls[i].batch = b}

\* C12: for every batch handed to the concatenator, when every file of the
\* batch reads as empty no call is made for the batch, and otherwise the
\* batch is not dropped: one call is made for it, and its payload has the
\* marker and the content of every file that does not read as empty and the
\* marker of no file that does.
C12_EmptyFilesSkipped ==
    mode \in ConcatModes =>
        \A b \in DOMAIN attempted :
            IF \A k \in DOMAIN attempted[b] : ReadsEmpty(attempted[b][k])
            THEN CallsFor(b) = {}
            ELSE /\ Cardinality(CallsFor(b)) = 1
                 /\ \A i \in CallsFor(b) : \A k \in DOMAIN attempted[b] :
                       IF ReadsEmpty(attempted[b][k])
                       THEN ~Contains(calls[i].payload, MarkerOf(attempted[b][k]))
                       ELSE Contains(calls[i].payload,
                                     MarkerOf(attempted[b][k]) \o <<"\n">>
                                         \o Strip(FileText(attempted[b][k])) \o <<"\n">>)

\* [A = "x", B = ""] has given a call with A's marker only, and a batch of
\* two empty files has been abandoned without a call.
C12_Witness ==
    /\ mode = "pairs" /\ pc = "done"
    /\ file_paths = <<"blank2", "c1", "blank">>
    /\ attempted = <<<<"c1", "blank">>, <<"blank2">>>>
    /\ Len(calls) = 1
    /\ Contains(calls[1].payload, MarkerOf("c1"))
    /\ ~Contains(calls[1].payload, MarkerOf("blank"))

\* A batch of two files that both read as empty has been abandoned.
C12_WitnessBothEmpty ==
    /\ mode = "pairs" /\ pc = "done"
    /\ attempted = <<<<"blank", "blank2">>>>
    /\ calls = <<>>

---------------------------------------------------------------------------
(* C13 *)

\* The marker line of file f and the content of f, each ended by a newline.
BlockOf(f) == MarkerOf(f) \o <<"\n">> \o Strip(FileText(f)) \o <<"\n">>

\* The blocks of the files, a blank line between two blocks.
RECURSIVE BlocksOf(_)
BlocksOf(files) ==
    IF files = <<>> THEN <<>>
    ELSE IF Len(files) = 1 THEN BlockOf(files[1])
    ELSE BlockOf(files[1]) \o <<"\n">> \o BlocksOf(Tail(files))

NotReadsEmpty(f) == ~ReadsEmpty(f)

\* C13: the payload of every call of the concatenating modes is, for each
\* file of its batch that does not read as empty, in batch order, the marker
\* line === FILE: <name> === of the file, the content of the file and a blank
\* separator line (the line after the last content is the empty last line of
\* the payload).
C13_PayloadFormat ==
    mode \in ConcatModes =>
        \A i \in DOMAIN calls :
            /\ calls[i].files = attempted[calls[i].batch]
            /\ calls[i].payload = BlocksOf(SelectSeq(calls[i].files, NotReadsEmpty))

\* A call has been made with the payload of chunk_1.txt and chunk_2.txt.
C13_Witness ==
    /\ mode \in ConcatModes
    /\ calls # <<>>
    /\ calls[1].files = <<"c1", "c2">>
    /\ calls[1].payload = <<"=", "=", "=", " ", "F", "I", "L", "E", ":", " ", "c", "h", "u", "n", "k", "_", "1", ".", "t", "x", "t", " ", "=", "=", "=", "\n", "x", "\n", "\n", "=", "=", "=", " ", "F", "I", "L", "E", ":", " ", "c", "h", "u", "n", "k", "_", "2", ".", "t", "x", "t", " ", "=", "=", "=", "\n", "y", "\n">>

---------------------------------------------------------------------------
(* C14 *)

\* C14: when the extractor ends with failure on a table (header, separator
\* |---|---|---|, data rows), the output path holds no partially written
\* file: there is no file at the path, or the file that was there before,
\* unchanged.
C14_NoPartialOutput ==
    (/\ pc = "x_done" /\ returned = "False"
     /\ IsPlainTable(table_lines)
     /\ \A i \in DOMAIN table_lines : table_lines[i] # "SEP_SPACED")
        => (OUT_PATH \in DOMAIN outputs => outputs[OUT_PATH] = OldFile)

---------------------------------------------------------------------------
(* Definitions shared by the claims about the consolidator *)

\* pd.read_csv reads the file without raising.
Parses(f) == ~read_csv(DirFile(f)).raised

\* The files the loop has gone through, and those of them that were read.
FilesDone == SubSeq(csv_files, 1, file_index - 1)

ParsedFiles == SelectSeq(FilesDone, Parses)

\* The name of directory file a is before the name of b in natural order.
ConsNameBefore(a, b) == KeyLess(ConsName(a), ConsName(b)) = "lt"

\* The *.csv files of the directory.
CsvOfDirectory ==
    {directory.entries[i] : i \in {j \in DOMAIN directory.entries :
        suffix(ConsName(directory.entries[j])) = <<".", "c", "s", "v">>}}

\* The run wrote the consolidated table.
Consolidated == pc = "c_done" /\ result = CONSOLIDATED

---------------------------------------------------------------------------
\* C15: the schema is the column list of the first file in natural order
\* that was read; the frame kept for every file read has the schema's
\* columns in the schema's order, a shared column holds the file's own
\* values, a column the file lacks holds NaN in each row (an empty field in
\* the output), columns outside the schema are gone; the output's header is
\* the schema.
C15_SchemaAlignment ==
    \A parsed \in {ParsedFiles} :
        /\ columns.set <=> parsed # <<>>
        /\ columns.set =>
              /\ columns.names = DirFile(parsed[1]).header
              /\ \A g \in CsvOfDirectory : Parses(g) => ~ConsNameBefore(g, parsed[1])
        /\ Len(dataframes) = Len(parsed)
        /\ \A k \in DOMAIN parsed :
              \A own \in {read_csv(DirFile(parsed[k])).df} :
                  /\ dataframes[k].columns = columns.names
                  /\ Len(dataframes[k].rows) = Len(own.rows)
                  /\ \A r \in DOMAIN own.rows : \A c \in DOMAIN columns.names :
                        \A j \in {column_position(own.columns, columns.names[c])} :
                            dataframes[k].rows[r][c] =
                                IF j = 0 THEN NaN ELSE own.rows[r][j]
        /\ Consolidated =>
              \A out \in {outputs[CONSOLIDATED]} : \A rows \in {all_rows(dataframes)} :
                  /\ out.header = columns.names
                  /\ Len(out.rows) = Len(rows)
                  /\ \A r \in DOMAIN out.rows :
                        /\ Len(out.rows[r]) = Len(columns.names)
                        /\ \A c \in DOMAIN columns.names :
                              rows[r][c] = NaN => out.rows[r][c] = <<>>

\* A table was written from a first file with the full schema, a later file
\* that lacks a schema column and a later file with a column of its own.
C15_Witness ==
    /\ Consolidated
    /\ csv_files = <<"full", "no_scene", "extra">>
    /\ outputs[CONSOLIDATED].header = <<"scene", "shot", "prompt">>
    /\ outputs[CONSOLIDATED].rows[2] = <<<<>>, <<"3", "A">>, <<"r">>>>
    /\ Len(outputs[CONSOLIDATED].rows[3]) = 3


---------------------------------------------------------------------------
\* The file is one pd.read_csv cannot parse.
Unparsable(f) == DirFile(f).kind = "bad"

ConsolidateErrors ==
    {"FileNotFoundError", "ValueError: No CSV files found", "ValueError: No valid CSV files"}

---------------------------------------------------------------------------
\* The rows of file f as they stand in the file, put under the schema: the
\* text of a shared column, an empty field for a column the file lacks.
aligned_texts(f, schema) ==
    [r \in DOMAIN DirFile(f).rows |->
        [c \in DOMAIN schema |->
            IF column_position(DirFile(f).header, schema[c]) = 0 THEN <<>>
            ELSE DirFile(f).rows[r][column_position(DirFile(f).header, schema[c])]]]

\* The rows of all the files, in the order of the list.
RECURSIVE rows_of_files(_, _)
rows_of_files(files, schema) ==
    IF files = <<>> THEN <<>>
    ELSE aligned_texts(files[1], schema) \o rows_of_files(Tail(files), schema)

\* C17: the table written holds exactly the rows of the files that were
\* parsed, file after file in natural order of the names and in each file's
\* own order, so that its row count is the sum of theirs; nothing is written
\* before the one write at the end.
C17_ExactRows ==
    /\ (run = 1 /\ pc # "c_done") => outputs = <<>>
    /\ (run = 2 /\ pc # "c_done") => outputs = (CONSOLIDATED :> first_table)
    /\ Consolidated =>
          \A parsed \in {ParsedFiles} :
              /\ \A i, j \in DOMAIN parsed : i < j => ~ConsNameBefore(parsed[j], parsed[i])
              /\ outputs[CONSOLIDATED].rows = rows_of_files(parsed, columns.names)


---------------------------------------------------------------------------
\* The setup failures that cannot be recovered from.
SetupFailures == {"missing_input", "no_files", "declined"}

\* C18: a process that ended because the user cancelled a prompt has exit
\* status 0, and one that ended on a missing input path, on no matching
\* files or on a declined credential has a non-zero status.
C18_ExitStatus ==
    pc = "m_exit" =>
        /\ exit_cause = "cancelled" => exit_status = 0
        /\ exit_cause \in SetupFailures => exit_status # 0


---------------------------------------------------------------------------
\* The functions that end with the summary "Conversion complete: n/total".
SummaryModes == {"script_files", "shot_list_files"}

\* C19: when a run that ends with a summary is done, the count the summary
\* reports is the number of batches whose external call succeeded and whose
\* output was written; a run in which every call failed reports 0.
C19_SummaryCount ==
    (pc = "done" /\ mode \in SummaryModes) =>
        successful_conversions =
            Cardinality({i \in DOMAIN calls :
                ~FailedResponse(calls[i].response) /\ calls[i].written = "True"})


---------------------------------------------------------------------------
\* The kinds of warning logged for a file that is skipped as invalid.
SkipWarnings == {"invalid", "not_found", "non_txt"}

\* C20: when a run of the tabular pipeline is done under any of its policies
\* (one file per batch, pairs, the whole set), a candidate that does not
\* exist or is no .txt file is in no batch and in no payload, a warning was
\* logged for it, and every other candidate is in a batch that was reached.
C20_InvalidExcludedWithWarning ==
    (pc = "done" /\ mode \in TableModes) =>
        \A f \in Range(file_paths) :
            IF is_valid_txt(f)
            THEN \E b \in DOMAIN attempted : f \in Range(attempted[b])
            ELSE /\ \A b \in DOMAIN attempted : f \notin Range(attempted[b])
                 /\ \A i \in DOMAIN calls :
                       /\ f \notin Range(calls[i].files)
                       /\ ~Contains(calls[i].payload, MarkerOf(f))
                 /\ \E w \in DOMAIN warnings :
                       warnings[w][1] \in SkipWarnings /\ warnings[w][2] = f


---------------------------------------------------------------------------
(* C21 *)

\* The cell holds dash characters only.
IsDashCell(cell) == cell # <<>> /\ \A i \in DOMAIN cell : cell[i] = "-"

\* The line is a separator row: all its cells are dashes.
IsSeparatorRow(id) == \A c \in DOMAIN LineCells(id) : IsDashCell(LineCells(id)[c])

\* The extractor wrote a file: completely, or up to a failing write.
WroteFile == pc = "x_done" /\ io_outcome.kind \in {"ok", "write_fails"}

\* C21: no Record written is made of the cells of a separator row, however
\* the row is spaced, and a row with 3 cells behind the header and separator
\* of a plain table is left out only if all its cells are dashes.
C21_SeparatorRows ==
    /\ WroteFile =>
          \A k \in 1..Len(outputs[OUT_PATH].rows) :
              \A i \in DOMAIN table_lines :
                  IsSeparatorRow(table_lines[i]) =>
                      outputs[OUT_PATH].rows[k] # RecordOf(LineCells(table_lines[i]))
    /\ (pc = "x_done" /\ io_outcome.kind = "ok" /\ Len(table_lines) >= 2
        /\ table_lines[1] = "HDR" /\ table_lines[2] = "SEP") =>
          \A i \in 3..Len(table_lines) :
              (Len(LineCells(table_lines[i])) = 3 /\ ~IsSeparatorRow(table_lines[i])) =>
                  \E k \in 1..Len(outputs[OUT_PATH].rows) :
                      outputs[OUT_PATH].rows[k] = RecordOf(LineCells(table_lines[i]))


---------------------------------------------------------------------------
(* C22 *)

\* The index of the first line that holds the delimiter and the marker
\* scene in some letter case; 0 when there is none.
FirstMarkerLine(lines) ==
    IF \E i \in DOMAIN lines :
          Find(lines[i], "|", 1) # 0 /\ Contains(Lower(lines[i]), S_scene)
    THEN CHOOSE i \in DOMAIN lines :
            /\ Find(lines[i], "|", 1) # 0 /\ Contains(Lower(lines[i]), S_scene)
            /\ \A j \in 1..(i - 1) :
                  ~(Find(lines[j], "|", 1) # 0 /\ Contains(Lower(lines[j]), S_scene))
    ELSE 0

\* C22: the line the extractor takes as the header is the first line that
\* holds the delimiter and the marker scene in any letter case, and the
\* extraction ends with table-not-found only when there is no such line.
C22_HeaderAnyCase ==
    pc = "x_done" =>
        \A lines \in {Split(Strip(markdown_table), "\n")} :
            /\ table_start(lines) = FirstMarkerLine(lines)
            /\ parse_rows(markdown_table).step = "no_table" <=> FirstMarkerLine(lines) = 0


---------------------------------------------------------------------------
(* C23 *)

\* The rows of the response that pass the arity filter, from the header
\* line on, in response order.
SurvivingRows ==
    table_rows_from(Split(Strip(markdown_table), "\n"),
                    table_start(Split(Strip(markdown_table), "\n")))

\* C23: when the extractor has written its file, the Records are the
\* surviving rows without the first one, in the order of the response, one
\* Record per row: their number is the number of surviving rows minus one.
C23_FirstRowDiscarded ==
    (pc = "x_done" /\ io_outcome.kind = "ok") =>
        \A rows \in {SurvivingRows} :
            /\ returned = "True"
            /\ Len(outputs[OUT_PATH].rows) = Len(rows) - 1
            /\ \A k \in 1..Len(outputs[OUT_PATH].rows) :
                  outputs[OUT_PATH].rows[k] = RecordOf(rows[k + 1])

\* Two Records were written in the order of their lines, the second line
\* first in the alphabet of its cells, and the header row is not among them.
C23_Witness ==
    /\ pc = "x_done" /\ io_outcome.kind = "ok"
    /\ table_lines = <<"HDR", "SEP", "ROW_1B", "ROW_4CELLS", "ROW_1A">>
    /\ outputs[OUT_PATH].rows = <<RecordOf(LineCells("ROW_1B")), RecordOf(LineCells("ROW_1A"))>>


---------------------------------------------------------------------------
(* C24 *)

\* C24: when a run in pair mode is done, the batches reached are the
\* consecutive pairs of the valid candidates in natural order: every batch
\* but the last holds 2 files, whatever invalid candidates the list holds.
C24_PairsOfValidFiles ==
    (pc = "done" /\ mode = "pairs") =>
        \A valid \in {SelectSeq(sorted_by_name(file_paths), is_valid_txt)} :
            /\ Flatten(attempted) = valid
            /\ \A b \in 1..(Len(attempted) - 1) : Len(attempted[b]) = 2
            /\ attempted # <<>> => Len(attempted[Len(attempted)]) \in {1, 2}


---------------------------------------------------------------------------
(* C25 *)

\* C25: natural_sort_key returns a key for each of the two names, the tokens
\* at each index the keys share are of the same type, and the two
\* comparisons of the keys that sorting makes both give an answer.
C25_KeyTotalAndComparable ==
    pc = "key_done" =>
        \A ka \in {natural_sort_key(nameA)} : \A kb \in {natural_sort_key(nameB)} :
            /\ ka.raised = "no" /\ kb.raised = "no"
            /\ \A i \in (DOMAIN ka.key) \cap (DOMAIN kb.key) : ka.key[i].kind = kb.key[i].kind
            /\ cmp.ab \in {"lt", "ge"} /\ cmp.ba \in {"lt", "ge"}


---------------------------------------------------------------------------
(* C26 *)

\* C26: in a run that makes one batch per file or per pair, no two batches
\* write to the same output path, so the output of a batch is never
\* overwritten by a later batch of the run.
C26_DistinctOutputPaths ==
    mode \in LoopModes =>
        \A i, j \in DOMAIN calls :
            (i < j /\ calls[i].written = "True" /\ calls[j].written = "True")
                => calls[i].path # calls[j].path



---------------------------------------------------------------------------
\* C27: consolidation with the default output path is idempotent: when a
\* second run over the same directory has ended, the consolidated table is
\* the table the first run wrote, and the second run did not read the
\* consolidated file of the first run as an input.
C27_Idempotent ==
    (run = 2 /\ pc = "c_done") =>
        /\ \A i \in DOMAIN csv_files : csv_files[i] # "consolidated"
        /\ outputs[CONSOLIDATED] = first_table


---------------------------------------------------------------------------
\* The rows without the separator rows (rows whose cells are all dashes).
DataRowsOnly(rows) ==
    SelectSeq(rows, LAMBDA cells : \E c \in DOMAIN cells : ~IsDashCell(cells[c]))

\* The Records without those made of a separator row.
DataRecordsOnly(records) ==
    SelectSeq(records, LAMBDA rec :
        ~(IsDashCell(rec.scene) /\ IsDashCell(rec.shot) /\ IsDashCell(rec.prompt)))

\* C28: the row the extractor discards as the header is the header line
\* itself, never a data row in its place: when it has written its file, the
\* data Records are the data rows that pass the arity filter among the lines
\* after the header line, all of them and in their order, whatever the cell
\* count of the header line.
C28_HeaderLineDiscarded ==
    (pc = "x_done" /\ io_outcome.kind = "ok") =>
        \A lines \in {Split(Strip(markdown_table), "\n")} :
            DataRecordsOnly(outputs[OUT_PATH].rows) =
                csv_records(DataRowsOnly(table_rows_from(lines, table_start(lines) + 1)))


---------------------------------------------------------------------------
\* C29: a call of the extractor that stops because no header line was
\* found, no row survived or only the header survived returns False and
\* leaves the output directory as it was: no file is created at the output
\* path and a file already there keeps its content.
C29_FailureLeavesOutput ==
    [][(/\ pc # "x_done"
        /\ pc' = "x_done"
        /\ parse_rows(markdown_table').step \in {"no_table", "no_rows", "no_data"})
            => (/\ returned' = "False"
                /\ io_outcome' = NoIo
                /\ outputs' = outputs)]_vars

\* The response held a header and a separator only, the call returned False
\* and the file an earlier run left at the output path is still there.
C29_Witness ==
    /\ pc = "x_done"
    /\ table_lines = <<"HDR", "SEP">>
    /\ parse_rows(markdown_table).step = "no_data"
    /\ returned = "False"
    /\ outputs = WriteFile(NoFiles, OUT_PATH, OldFile)


---------------------------------------------------------------------------
\* The Record is made of the cells of a header row.
IsHeaderRecord(rec) ==
    \E h \in HeaderLines \cup {"HDR_AGAIN"} : rec = RecordOf(LineCells(h))

\* C30: no Record the extractor writes is a header row, also when the
\* response holds the header row of a later table behind the rows of the
\* first one.
C30_NoHeaderRecord ==
    WroteFile =>
        \A k \in 1..Len(outputs[OUT_PATH].rows) : ~IsHeaderRecord(outputs[OUT_PATH].rows[k])

============================================================================
